---------------------------- MODULE Spec2Model ----------------------------
(***************************************************************************)
(* Capacitance and ESR measurement of the component tester firmware        *)
(* (src/firmware/cap.c): MeasureCap, LargeCap, SmallCap, RefCap and       *)
(* MeasureESR as a state machine.  Every ReadU() result, every             *)
(* DischargeProbes() outcome and every timer flag is an input chosen by    *)
(* the environment; SpecTimer follows Timer1 cycle by cycle instead and    *)
(* SpecCalc applies the conversions to operands chosen at the start.       *)
(***************************************************************************)
EXTENDS Integers, Sequences, FiniteSets, TLC

(***************************************************************************)
(* Program constants                                                       *)
(***************************************************************************)

\* component classes (Check.Found), ordered by rank
COMP_NONE == 0
COMP_ERROR == 1
COMP_RESISTOR == 10
COMP_CAPACITOR == 11
COMP_DIODE == 20
COMP_BJT == 30
COMP_FET == 31

\* MCU clock of the build
CPU_FREQ == 8000000

\* systematic error compensation in 0.1% (build configuration)
CAP_FACTOR_SMALL == 0
CAP_FACTOR_MID == -40
CAP_FACTOR_LARGE == -90

\* default number of ADC samples (build configuration)
ADC_SAMPLES == 25

UINT16_MAX == 65535

\* UINT32_MAX / 1000, the limit above which a value is scaled down by 10^3
UINT32_MAX_1000 == 4294967

\* charge loop of LargeCap
MaxPulses == 500
SlowPulses == 126
SlowLimit == 75
ChargeLimit == 300
SmallLimit == 1300
DropLimit == 100

\* overflow budget of the timer loop in SmallCap
OverflowBudget == CPU_FREQ \div 5000

\* ADC clock of the build, and the cycles DelayTimer() needs by itself
ADC_FREQ == 125000
CYCLE_OFFSET == 17
MCU_CYCLES_PER_US == CPU_FREQ \div 1000000
MCU_CYCLES_PER_ADC == CPU_FREQ \div ADC_FREQ

\* runs of the measurement loop of MeasureESR
EsrLoops == 255

(***************************************************************************)
(* Integer types of the target (AVR: int is 16 bit)                        *)
(***************************************************************************)

U8(x) == x % 256
U16(x) == x % 65536
I8(x) == LET y == x % 256 IN IF y >= 128 THEN y - 256 ELSE y
I16(x) == LET y == x % 65536 IN IF y >= 32768 THEN y - 65536 ELSE y

\* uint32_t products exceed the range of TLC's integers: they are
\* computed on four 8-bit limbs, truncated to 32 bits as the target does
Limb(a, i) ==
  (a \div (IF i = 0 THEN 1 ELSE IF i = 1 THEN 256
           ELSE IF i = 2 THEN 65536 ELSE 16777216)) % 256

\* a * b modulo 2^32 as limbs <<r0, r1, r2, r3>>, for 0 <= a, b < 2^31
MulU32(a, b) ==
  LET c0 == Limb(a, 0) * Limb(b, 0)
      c1 == Limb(a, 0) * Limb(b, 1) + Limb(a, 1) * Limb(b, 0) + c0 \div 256
      c2 == Limb(a, 0) * Limb(b, 2) + Limb(a, 1) * Limb(b, 1)
            + Limb(a, 2) * Limb(b, 0) + c1 \div 256
      c3 == Limb(a, 0) * Limb(b, 3) + Limb(a, 1) * Limb(b, 2)
            + Limb(a, 2) * Limb(b, 1) + Limb(a, 3) * Limb(b, 0) + c2 \div 256
  IN  <<c0 % 256, c1 % 256, c2 % 256, c3 % 256>>

\* limbs / d for 2 <= d < 2^23
DivU32(r, d) ==
  LET q3 == r[4] \div d
      m3 == r[4] % d
      q2 == (m3 * 256 + r[3]) \div d
      m2 == (m3 * 256 + r[3]) % d
      q1 == (m2 * 256 + r[2]) \div d
      m1 == (m2 * 256 + r[2]) % d
      q0 == (m1 * 256 + r[1]) \div d
  IN  ((q3 * 256 + q2) * 256 + q1) * 256 + q0

\* (uint32_t)(a * b) / d
MulDivU32(a, b, d) == DivU32(MulU32(a, b), d)

\* C division truncates toward zero
CDiv(a, b) ==
  IF (a >= 0) = (b >= 0)
  THEN (IF a >= 0 THEN a ELSE -a) \div (IF b >= 0 THEN b ELSE -b)
  ELSE -((IF a >= 0 THEN a ELSE -a) \div (IF b >= 0 THEN b ELSE -b))

RECURSIVE Pow10(_)
Pow10(n) == IF n <= 0 THEN 1 ELSE 10 * Pow10(n - 1)

\* CmpValue(): compare Value1 * 10^Scale1 with Value2 * 10^Scale2
CmpValue(v1, s1, v2, s2) ==
  LET m == IF s1 < s2 THEN s1 ELSE s2
      a == v1 * Pow10(s1 - m)
      b == v2 * Pow10(s2 - m)
  IN  IF a < b THEN -1 ELSE IF a > b THEN 1 ELSE 0

\* RescaleValue(): Value * 10^Scale expressed in units of 10^NewScale
RescaleValue(v, s, ns) ==
  IF s >= ns THEN v * Pow10(s - ns) ELSE v \div Pow10(ns - s)

(***************************************************************************)
(* Environment: bounded sets the inputs are drawn from                     *)
(***************************************************************************)

\* test pins
ProbeIDs == 0 .. 2
ProbePairs == {<<0, 1>>, <<2, 0>>}

\* port registers hold sets of pins; 0 is the empty set
AllPins == {<<"TP", p>> : p \in ProbeIDs}
NoPins == {}
Pin(p) == {<<"TP", p>>}
Rl(p) == {<<"Rl", p>>}
Rh(p) == {<<"Rh", p>>}

SafePins == [ADC_DDR |-> NoPins, ADC_PORT |-> NoPins,
             R_DDR |-> NoPins, R_PORT |-> NoPins]
DirtyPins == [ADC_DDR |-> Pin(2), ADC_PORT |-> Pin(2),
              R_DDR |-> Rh(2), R_PORT |-> Rh(2)]

\* capacitor record as left by code before the call
BootCap == [A |-> 0, B |-> 0, Scale |-> 0, Raw |-> 0, Value |-> 0,
            I_leak_Value |-> 0, I_leak_Scale |-> 0, U_loss |-> 0]
StaleCap == [A |-> 2, B |-> 1, Scale |-> -6, Raw |-> 4700, Value |-> 4312,
             I_leak_Value |-> 77, I_leak_Scale |-> -7, U_loss |-> 13]


\* ReadU() in LargeCap: zero offset readings at probe-1 and probe-2
ZeroReads1 == {120, 140, 160}
ZeroReads2 == {140}

\* pulse counts at which the DUT may reach the charge threshold
CrossPulses == {1, 2, 4, 126, 500}

\* ReadU() after charging pulse number p
ChargeReads(p) ==
  (IF p \in CrossPulses THEN {100, 319, 320, 1320} ELSE {100})
  \cup (IF p = 126 THEN {60} ELSE {})

\* ReadU() before and at the end of the self-discharge loop
DropReads1 == {300, 450}
DropReads2 == {300, 400}

\* ReadU() before and after the leakage delay
LeakReads1 == {400}
LeakReads2 == {380, 400}

\* GetFactor(): factors the interpolation of each table can return
LargeCapFactors == {4336, 23022}
SmallCapFactors == {856}

\* overflow counts at which the comparator may fire, and ICR1 at capture
CaptureAt == {0, 1, 70, 1599}
TickReads == {1, 43, 47, 30000}

\* ReadU() in SmallCap: DUT after capture, discharge wait, self-adjustment
UcReads == {1100, 1149, 1150}
WaitReads == {950, 981, 1000}
VccReads == {900, 952, 960}
BandgapReads == {950}

\* ReadU() in the voltage loss section: zero offset, start and end voltage
LossReads0 == {10}
LossReads1 == {10, 510}
LossReads2 == {10, 410, 510}

\* registered components: what the earlier tests left in Resistors[] and Diodes[]
NoResistors == <<>>
LowResistor == <<[A |-> 0, B |-> 1, Value |-> 500, Scale |-> -2]>>
HighResistor == <<[A |-> 1, B |-> 0, Value |-> 47000, Scale |-> -2]>>
TwoResistors == <<[A |-> 1, B |-> 2, Value |-> 300, Scale |-> -2],
                  [A |-> 1, B |-> 0, Value |-> 999, Scale |-> -2]>>
NoDiodes == <<>>
SiDiode == <<[A |-> 0, C |-> 1, V_f |-> 700]>>
LedDiode == <<[A |-> 0, C |-> 1, V_f |-> 1500]>>

\* classification and registries at the call of MeasureCap
Scenarios ==
  { [Found |-> COMP_NONE, Resistors |-> NoResistors, Diodes |-> NoDiodes],
    [Found |-> COMP_ERROR, Resistors |-> NoResistors, Diodes |-> NoDiodes],
    [Found |-> COMP_RESISTOR, Resistors |-> LowResistor, Diodes |-> NoDiodes],
    [Found |-> COMP_RESISTOR, Resistors |-> HighResistor, Diodes |-> NoDiodes],
    [Found |-> COMP_RESISTOR, Resistors |-> TwoResistors, Diodes |-> NoDiodes],
    [Found |-> COMP_RESISTOR, Resistors |-> LowResistor, Diodes |-> SiDiode],
    [Found |-> COMP_DIODE, Resistors |-> NoResistors, Diodes |-> SiDiode],
    [Found |-> COMP_DIODE, Resistors |-> NoResistors, Diodes |-> LedDiode],
    [Found |-> COMP_FET, Resistors |-> NoResistors, Diodes |-> NoDiodes] }

\* build variants (conditional compilation)
Builds == [SW_C_VLOSS : BOOLEAN, HW_ADJUST_CAP : BOOLEAN]
EsrBuilds == [SW_OLD_ESR : BOOLEAN, R_MULTIOFFSET : BOOLEAN]

\* capacitor records MeasureESR is called with: 5nF, 100nF, 1uF and 4700uF
EsrCaps ==
  { [StaleCap EXCEPT !.A = 0, !.B = 1, !.Scale = -12, !.Value = 5000],
    [StaleCap EXCEPT !.A = 0, !.B = 1, !.Scale = -12, !.Value = 100000],
    [StaleCap EXCEPT !.A = 2, !.B = 0, !.Scale = -9, !.Value = 1000],
    [StaleCap EXCEPT !.A = 1, !.B = 2, !.Scale = -6, !.Value = 4700] }

\* calibration values: RiL (0.1 Ohm), RZero (0.01 Ohm) and CapZero (pF)
RiLValues == {190, 7000}
RZeroValues == {0, 600}
CapZeroValues == {0, 43, 255}

\* ADC readings <<U_1, U_2, U_3, U_4>> of one run of the ESR loop: loaded
\* equal to unloaded, loaded above unloaded, hardly any current through RiL
\* with the loaded reading at the top, loaded collapsed, loaded at the top
\* of the ADC range
FlatReads == <<500, 500, 500, 500>>
LoadedReads == <<500, 520, 500, 530>>
WeakReads == <<10, 1023, 10, 1023>>
SagReads == <<500, 40, 500, 30>>
PeakReads == <<500, 1023, 500, 1023>>

\* loop counter values at which the DUT may answer off its default
EsrSampleAt == {255, 1}

(***************************************************************************)
(* State                                                                   *)
(***************************************************************************)

VARIABLES
  pc,       \* position of the program
  build,    \* build variant, fixed at start
  Found,    \* Check.Found
  reg,      \* Resistors[] (Check.Resistors = Len) and Diodes[]
  Cap,      \* Caps[ID], the capacitor record
  pins,     \* ADC_DDR, ADC_PORT, R_DDR, R_PORT
  Probes,   \* Probes.ID_1, Probes.ID_2 (pin masks derive from the IDs)
  NV,       \* calibration store
  Cfg,      \* runtime configuration
  mc,       \* MeasureCap: arguments and TempByte
  lc,       \* LargeCap: local variables
  sc,       \* SmallCap: local variables
  rc,       \* RefCap: local variables and the ADJUST pin
  tmr,      \* Timer1: TCNT1, ICR1, TIFR1 and what really happened
  calc,     \* a conversion by itself: operands and result
  esr,      \* MeasureESR: argument, local variables and return value
  dut,      \* ADC readings the DUT gives by default in MeasureESR
  h         \* history of the current call (observation only)

vars == <<pc, build, Found, reg, Cap, pins, Probes, NV, Cfg, mc, lc, sc, rc,
          tmr, calc, esr, dut, h>>

\* no frame: the function is not running
NoFrame == [run |-> FALSE]

InitNV == [RiL |-> 190, RZero |-> 20, CapZero |-> 43, CompOffset |-> 0, RefOffset |-> 0]
InitCfg == [AutoScale |-> 1, Samples |-> ADC_SAMPLES, Ref |-> "VCC", Bandgap |-> 1100]

InitHistory ==
  [entryFound |-> COMP_NONE, entryPins |-> SafePins, resetCap |-> BootCap,
   skipped |-> FALSE, nLarge |-> 0, nSmall |-> 0, retLarge |-> -1, retSmall |-> -1,
   attempts |-> 0, written |-> FALSE, plausFound |-> -1,
   factor |-> 0, count |-> 0, mode |-> {}]

Init ==
  /\ pc = "idle"
  /\ build \in Builds
  /\ \E s \in Scenarios :
       /\ Found = s.Found
       /\ reg = [Resistors |-> s.Resistors, Diodes |-> s.Diodes]
  /\ Cap = StaleCap
  /\ pins \in {SafePins, DirtyPins}
  /\ Probes = [ID_1 |-> 0, ID_2 |-> 0]
  /\ NV = InitNV
  /\ Cfg = InitCfg
  /\ mc = NoFrame
  /\ lc = NoFrame
  /\ sc = NoFrame
  /\ rc = NoFrame
  /\ tmr = NoFrame
  /\ calc = NoFrame
  /\ esr = NoFrame
  /\ dut = FlatReads
  /\ h = InitHistory

(***************************************************************************)
(* External collaborators                                                  *)
(***************************************************************************)

\* UpdateProbes2(Probe1, Probe2): probe-1 is pulled up, probe-2 pulled down
UpdateProbes2(p1, p2) == [ID_1 |-> p1, ID_2 |-> p2]

\* SearchDiode(A, C): index of the diode registered between the two pins,
\* 0 for NULL
RECURSIVE SearchDiodeFrom(_, _, _, _)
SearchDiodeFrom(ds, a, c, i) ==
  IF i > Len(ds) THEN 0
  ELSE IF ds[i].A = a /\ ds[i].C = c THEN i
  ELSE SearchDiodeFrom(ds, a, c, i + 1)

SearchDiode(a, c) == SearchDiodeFrom(reg.Diodes, a, c, 1)

\* DischargeProbes(): the outcomes for (Check.Found, pins): discharged or
\* Check.Found = COMP_ERROR; the pins are released or left as they are
DischargeOutcomes(found, p) ==
  {[Found |-> f, pins |-> q] : f \in {found, COMP_ERROR}, q \in {p, SafePins}}

(***************************************************************************)
(* MeasureCap                                                              *)
(***************************************************************************)

\* reset cap data (U_loss exists with SW_C_VLOSS only)
ResetCap(c) ==
  [c EXCEPT !.A = 0, !.B = 0, !.Scale = -12, !.Raw = 0, !.Value = 0,
            !.I_leak_Value = 0,
            !.U_loss = IF build.SW_C_VLOSS THEN 0 ELSE @]

\* loop through all resistors: TempByte at the end of the loop
RECURSIVE ResistorLoop(_, _, _, _, _)
ResistorLoop(rs, p1, p2, TempByte, i) ==
  IF TempByte < Len(rs)
  THEN LET Resistor == rs[i]
           match == \/ (Resistor.A = p1 /\ Resistor.B = p2)
                    \/ (Resistor.A = p2 /\ Resistor.B = p1)
           low == CmpValue(Resistor.Value, Resistor.Scale, 10, 0) = -1
           t == IF match /\ low THEN 99 ELSE TempByte
       IN  ResistorLoop(rs, p1, p2, U8(t + 1), i + 1)
  ELSE TempByte

\* a resistor that is no candidate for a large cap: skip
\* (faulty variant: TempByte compared with its value before the increment)
SkipResistor_Not99(p1, p2) ==
  /\ Found = COMP_RESISTOR
  /\ ResistorLoop(reg.Resistors, p1, p2, 0, 1) # 99

SkipResistor(p1, p2) ==
  /\ Found = COMP_RESISTOR
  /\ ResistorLoop(reg.Resistors, p1, p2, 0, 1) # 100

\* a diode whose Vf collides with the voltage of the measurement: skip
\* (faulty variant: the comparison of Vf reversed)
SkipDiode_HighVf(p1, p2) ==
  LET Diode == SearchDiode(p1, p2)
  IN  Diode # 0 /\ reg.Diodes[Diode].V_f > 1500

SkipDiode(p1, p2) ==
  LET Diode == SearchDiode(p1, p2)
  IN  Diode # 0 /\ reg.Diodes[Diode].V_f < 1500

\* MeasureCap() up to the call of LargeCap(), or its early return
MeasureCap_Enter ==
  /\ pc = "idle"
  /\ \E pp \in ProbePairs :
       LET p1 == pp[1]
           p2 == pp[2]
           skip == Found = COMP_ERROR \/ SkipResistor(p1, p2) \/ SkipDiode(p1, p2)
       IN  /\ Cap' = ResetCap(Cap)
           /\ mc' = [run |-> TRUE, Probe1 |-> p1, Probe2 |-> p2, TempByte |-> 0]
           /\ h' = [h EXCEPT !.entryFound = Found, !.entryPins = pins,
                             !.resetCap = ResetCap(Cap), !.skipped = skip]
           /\ IF skip
              THEN /\ pc' = "done"
                   /\ UNCHANGED Probes
              ELSE /\ pc' = "large_cap"
                   /\ Probes' = UpdateProbes2(p1, p2)
  /\ UNCHANGED <<rc, tmr, esr, calc, dut, build, Found, reg, pins, NV, Cfg, lc, sc>>


(***************************************************************************)
(* LargeCap                                                                *)
(***************************************************************************)

\* return from LargeCap() to MeasureCap(): TempByte = LargeCap(Cap)
LargeCap_Return(Flag) ==
  /\ lc' = NoFrame
  /\ mc' = [mc EXCEPT !.TempByte = Flag]
  /\ pc' = "after_large"

\* (faulty variant: the pull-up of the zero reading is left on probe-2)
LargeCapPins_PullUp ==
  [ADC_PORT |-> NoPins, ADC_DDR |-> Pin(Probes.ID_2),
   R_PORT |-> Rl(Probes.ID_2), R_DDR |-> Rl(Probes.ID_2)]

\* pins while the DUT is charged: Gnd -- probe-2 / probe-1 -- HiZ
LargeCapPins ==
  [ADC_PORT |-> NoPins, ADC_DDR |-> Pin(Probes.ID_2),
   R_PORT |-> NoPins, R_DDR |-> NoPins]

\* zero offset: int16_t difference of two readings
ZeroOffset(r1, r2) == I16(I16(r1) - r2)

\* consider zero offset: uint16_t U_Cap compared with int16_t U_Zero
\* (both operands are converted to unsigned int)
Compensate(U_read, U_Zero) ==
  IF U16(U_read) > U16(U_Zero) THEN U16(U_read - U_Zero) ELSE 0

\* (faulty variant: no check for a slow charge at pulse 126)
ChargeMore_NoSlow(Pulses, U_Cap) ==
  /\ ~(U_Cap >= ChargeLimit)
  /\ ~(Pulses = MaxPulses)

\* the charge loop goes on after this pulse
ChargeMore(Pulses, U_Cap) ==
  /\ ~(Pulses = SlowPulses /\ U_Cap < SlowLimit)
  /\ ~(U_Cap >= ChargeLimit)
  /\ ~(Pulses = MaxPulses)

\* label large_cap: first entry sets up the frame, goto keeps it
LargeCap_Start ==
  /\ pc = "large_cap"
  /\ \E o \in DischargeOutcomes(Found, pins), r1 \in ZeroReads1, r2 \in ZeroReads2 :
       LET f == IF lc.run THEN lc
                ELSE [run |-> TRUE, Flag |-> 3, Mode |-> {"PULL_10MS", "PULL_UP"},
                      Pulses |-> 0, TempByte |-> 0, U_Zero |-> 0, U_Cap |-> 0,
                      U_Drop |-> 0, U_leak |-> 0]
       IN  /\ Found' = o.Found
           /\ h' = [h EXCEPT !.nLarge = IF lc.run THEN @ ELSE @ + 1,
                             !.attempts = IF lc.run THEN @ + 1 ELSE 1,
                             !.retLarge = IF o.Found = COMP_ERROR THEN 0 ELSE @]
           /\ IF o.Found = COMP_ERROR
              THEN /\ pins' = o.pins
                   /\ LargeCap_Return(0)
              ELSE /\ pins' = LargeCapPins
                   /\ lc' = [f EXCEPT !.U_Zero = ZeroOffset(r1, r2),
                                      !.Pulses = 0, !.TempByte = 1]
                   /\ pc' = "lc_charge"
                   /\ UNCHANGED mc
  /\ UNCHANGED <<rc, tmr, esr, calc, dut, build, reg, Cap, Probes, NV, Cfg, sc>>

\* one run of the charge loop: pulse, reading, loop control
LargeCap_Pulse ==
  /\ pc = "lc_charge"
  /\ lc.TempByte # 0
  /\ \E u \in ChargeReads(lc.Pulses + 1) :
       LET Pulses == U16(lc.Pulses + 1)
           U_Cap == Compensate(u, lc.U_Zero)
           more == ChargeMore(Pulses, U_Cap)
       IN  /\ lc' = [lc EXCEPT !.Pulses = Pulses, !.U_Cap = U_Cap,
                               !.TempByte = IF more THEN 1 ELSE 0]
           /\ pc' = IF more THEN "lc_charge" ELSE "lc_eval"
  /\ UNCHANGED <<rc, tmr, esr, calc, dut, build, Found, reg, Cap, pins, Probes, NV, Cfg, mc, sc, h>>

\* 1300mV are reached with one pulse: a small cap
SinglePulse(Pulses, U_Cap) == Pulses = 1 /\ U_Cap > SmallLimit

\* change to 1ms charging pulses and re-run (from 10ms pulses only)
\* (faulty variant: re-run without looking at the mode)
Retry_AnyMode(Pulses, U_Cap, Mode) == SinglePulse(Pulses, U_Cap)

Retry(Pulses, U_Cap, Mode) ==
  SinglePulse(Pulses, U_Cap) /\ "PULL_10MS" \in Mode

\* after the charge loop: too high, re-run with 1ms pulses, or too low
LargeCap_Eval ==
  /\ pc = "lc_eval"
  /\ LET Flag1 == IF lc.U_Cap < ChargeLimit THEN 1 ELSE lc.Flag
         single == SinglePulse(lc.Pulses, lc.U_Cap)
         rerun == Retry(lc.Pulses, lc.U_Cap, lc.Mode)
         Flag2 == IF single /\ ~rerun THEN 2 ELSE Flag1
     IN  IF rerun
         THEN /\ lc' = [lc EXCEPT !.Flag = Flag1, !.Mode = {"PULL_1MS", "PULL_UP"}]
              /\ pc' = "large_cap"
              /\ UNCHANGED <<mc, h>>
         ELSE IF Flag2 = 3
         THEN /\ lc' = [lc EXCEPT !.Flag = Flag2]
              /\ pc' = "lc_drop"
              /\ UNCHANGED <<mc, h>>
         ELSE /\ LargeCap_Return(Flag2)
              /\ h' = [h EXCEPT !.retLarge = Flag2]
  /\ UNCHANGED <<rc, tmr, esr, calc, dut, build, Found, reg, Cap, pins, Probes, NV, Cfg, sc>>

\* self-discharge during the measuring period: start voltage, then a delay
\* loop of Pulses runs which keeps the last reading in U_leak
LargeCap_SelfDischarge ==
  /\ pc = "lc_drop"
  /\ \E u1 \in DropReads1, u2 \in DropReads2 :
       LET drop == u1 > u2
           U_Drop == IF drop THEN U16(u1 - u2) ELSE 0
           U_loss == U16((U_Drop * 1000) \div lc.U_Cap)
       IN  /\ lc' = [lc EXCEPT !.U_Drop = U_Drop, !.U_leak = u2,
                               !.Flag = IF U_Drop > DropLimit THEN 0 ELSE @]
           /\ Cap' = IF drop /\ build.SW_C_VLOSS
                     THEN [Cap EXCEPT !.U_loss = U_loss] ELSE Cap
           /\ h' = [h EXCEPT !.written = @ \/ (drop /\ build.SW_C_VLOSS)]
  /\ pc' = "lc_leak"
  /\ UNCHANGED <<rc, tmr, esr, calc, dut, build, Found, reg, pins, Probes, NV, Cfg, mc, sc>>

\* leakage: voltage before and after a delay of 1000ms or 100ms
LargeCap_Leak ==
  /\ pc = "lc_leak"
  /\ \E u1 \in LeakReads1, u2 \in LeakReads2 :
       lc' = [lc EXCEPT !.U_leak = IF u1 > u2 THEN U16(u1 - u2) ELSE 0]
  /\ pc' = "lc_calc"
  /\ UNCHANGED <<rc, tmr, esr, calc, dut, build, Found, reg, Cap, pins, Probes, NV, Cfg, mc, sc, h>>

\* while (Value > limit) { Value /= 10; Scale++; }
RECURSIVE ScaleDown(_, _, _)
ScaleDown(Value, Scale, limit) ==
  IF Value > limit THEN ScaleDown(Value \div 10, Scale + 1, limit)
  ELSE [Value |-> Value, Scale |-> Scale]

\* (faulty variant: one compensation factor for both modes)
LargeCapValue_OneFactor(factor, Pulses, Mode) ==
  LET Raw1 == factor * Pulses
      Raw2 == IF "PULL_10MS" \in Mode THEN Raw1 * 10 ELSE Raw1
      big == Raw2 > UINT32_MAX_1000
      Raw == IF big THEN Raw2 \div 1000 ELSE Raw2
      Scale == IF big THEN -9 + 3 ELSE -9
  IN  [Scale |-> Scale, Raw |-> Raw,
       Value |-> MulDivU32(Raw, 1000, 1000 - CAP_FACTOR_LARGE)]

\* (faulty variant: the time base of the short pulses ignored)
LargeCapLeak_OneSecond(Value, Scale, U_leak, Mode) ==
  LET a == ScaleDown(Value, Scale, 800000)
      b == ScaleDown(MulDivU32(a.Value, U_leak, 1000), a.Scale, UINT16_MAX)
  IN  [I_leak_Value |-> U16(b.Value), I_leak_Scale |-> I8(b.Scale)]

\* capacitance from factor and pulses: Scale, Raw and compensated Value
\* (faulty variant: scaled down without the change of the exponent)
LargeCapValue_NoRescale(factor, Pulses, Mode) ==
  LET Raw1 == factor * Pulses
      Raw2 == IF "PULL_10MS" \in Mode THEN Raw1 * 10 ELSE Raw1
      big == Raw2 > UINT32_MAX_1000
      Raw == IF big THEN Raw2 \div 1000 ELSE Raw2
      comp == IF "PULL_10MS" \in Mode THEN 1000 - CAP_FACTOR_LARGE
              ELSE 1000 - CAP_FACTOR_MID
  IN  [Scale |-> -9, Raw |-> Raw, Value |-> MulDivU32(Raw, 1000, comp)]

LargeCapValue(factor, Pulses, Mode) ==
  LET Raw1 == factor * Pulses
      Raw2 == IF "PULL_10MS" \in Mode THEN Raw1 * 10 ELSE Raw1
      big == Raw2 > UINT32_MAX_1000
      Raw == IF big THEN Raw2 \div 1000 ELSE Raw2
      Scale == IF big THEN -9 + 3 ELSE -9
      comp == IF "PULL_10MS" \in Mode THEN 1000 - CAP_FACTOR_LARGE
              ELSE 1000 - CAP_FACTOR_MID
  IN  [Scale |-> Scale, Raw |-> Raw, Value |-> MulDivU32(Raw, 1000, comp)]

\* self-discharge leakage current I = C * U_diff / t
LargeCapLeak(Value, Scale, U_leak, Mode) ==
  LET a == ScaleDown(Value, Scale, 800000)
      v == MulDivU32(a.Value, U_leak, 1000)
      s == IF "PULL_1MS" \in Mode THEN a.Scale + 1 ELSE a.Scale
      b == ScaleDown(v, s, UINT16_MAX)
  IN  [I_leak_Value |-> U16(b.Value), I_leak_Scale |-> I8(b.Scale)]

\* calculate capacitance and leakage, copy data, return Flag
LargeCap_Calc ==
  /\ pc = "lc_calc"
  /\ IF lc.Flag = 3
     THEN \E factor \in LargeCapFactors :
            \E c \in {LargeCapValue(factor, lc.Pulses, lc.Mode)} :
              \E l \in {LargeCapLeak(c.Value, c.Scale, lc.U_leak, lc.Mode)} :
                /\ Cap' = [Cap EXCEPT !.A = Probes.ID_2, !.B = Probes.ID_1,
                                      !.Scale = c.Scale, !.Raw = c.Raw,
                                      !.Value = c.Value,
                                      !.I_leak_Value = l.I_leak_Value,
                                      !.I_leak_Scale = l.I_leak_Scale]
                /\ h' = [h EXCEPT !.retLarge = lc.Flag, !.written = TRUE,
                                  !.factor = factor, !.count = lc.Pulses,
                                  !.mode = lc.Mode]
     ELSE /\ UNCHANGED Cap
          /\ h' = [h EXCEPT !.retLarge = lc.Flag]
  /\ LargeCap_Return(lc.Flag)
  /\ UNCHANGED <<rc, tmr, esr, calc, dut, build, Found, reg, pins, Probes, NV, Cfg, sc>>

(***************************************************************************)
(* MeasureCap, after LargeCap                                              *)
(***************************************************************************)

\* if cap is too small run measurement for small caps
\* (faulty variant: run it after every result but success)
RunSmallCap_NoSuccess(TempByte) == TempByte # 3

RunSmallCap(TempByte) == TempByte = 2

MeasureCap_AfterLarge ==
  /\ pc = "after_large"
  /\ pc' = IF RunSmallCap(mc.TempByte) THEN "small_cap" ELSE "plausibility"
  /\ UNCHANGED <<rc, tmr, esr, calc, dut, build, Found, reg, Cap, pins, Probes, NV, Cfg, mc, lc, sc, h>>

\* (faulty variant: no lower limit of 5pF for a capacitor)
Plausibility_NoGhost(found, c) ==
  IF found < COMP_DIODE
  THEN IF found = COMP_RESISTOR
       THEN (IF c.Scale >= -6 THEN COMP_CAPACITOR ELSE found)
       ELSE COMP_CAPACITOR
  ELSE found

\* check for plausibility: the new Check.Found
\* (faulty variant: the diode rank itself is not protected)
Plausibility_UpToDiode(found, c) ==
  IF found <= COMP_DIODE
  THEN IF found = COMP_RESISTOR
       THEN (IF c.Scale >= -6 THEN COMP_CAPACITOR ELSE found)
       ELSE IF c.Scale > -12 \/ c.Value >= 5 THEN COMP_CAPACITOR
       ELSE found
  ELSE found

\* (faulty variant: 5pF itself taken as a ghost)
Plausibility_Above5(found, c) ==
  IF found < COMP_DIODE
  THEN IF found = COMP_RESISTOR
       THEN (IF c.Scale >= -6 THEN COMP_CAPACITOR ELSE found)
       ELSE IF c.Scale > -12 \/ c.Value > 5 THEN COMP_CAPACITOR
       ELSE found
  ELSE found

Plausibility(found, c) ==
  IF found < COMP_DIODE
  THEN IF found = COMP_RESISTOR
       THEN (IF c.Scale >= -6 THEN COMP_CAPACITOR ELSE found)
       ELSE IF c.Scale > -12 \/ c.Value >= 5 THEN COMP_CAPACITOR
       ELSE found
  ELSE found

MeasureCap_Plausibility ==
  /\ pc = "plausibility"
  /\ Found' = Plausibility(Found, Cap)
  /\ h' = [h EXCEPT !.plausFound = Found]
  /\ pc' = "cleanup"
  /\ UNCHANGED <<rc, tmr, esr, calc, dut, build, reg, Cap, pins, Probes, NV, Cfg, mc, lc, sc>>

\* reset all ports and pins
\* (faulty variant: the resistor port forgotten)
ResetPins_ADC(p) == [p EXCEPT !.ADC_DDR = NoPins, !.ADC_PORT = NoPins]

ResetPins(p) ==
  [p EXCEPT !.ADC_DDR = NoPins, !.ADC_PORT = NoPins,
            !.R_DDR = NoPins, !.R_PORT = NoPins]

\* clean up: discharge DUT, reset all ports and pins, return
MeasureCap_Cleanup ==
  /\ pc = "cleanup"
  /\ \E o \in DischargeOutcomes(Found, pins) :
       /\ Found' = o.Found
       /\ pins' = ResetPins(o.pins)
  /\ pc' = "done"
  /\ UNCHANGED <<rc, tmr, esr, calc, dut, build, reg, Cap, Probes, NV, Cfg, mc, lc, sc, h>>

(***************************************************************************)
(* SmallCap                                                                *)
(***************************************************************************)

\* return from SmallCap() to MeasureCap(): TempByte = SmallCap(Cap)
SmallCap_Return(Flag) ==
  /\ sc' = NoFrame
  /\ mc' = [mc EXCEPT !.TempByte = Flag]
  /\ pc' = "plausibility"

\* probe pins kept pulled down while charging (all but probe-1 for C_GS)
SmallCapPullDown ==
  IF Found = COMP_FET THEN AllPins \ Pin(Probes.ID_1) ELSE Pin(Probes.ID_2)

\* discharge, set up comparator and timer, start charging via Rh
SmallCap_Start ==
  /\ pc = "small_cap"
  /\ \E o \in DischargeOutcomes(Found, pins) :
       /\ Found' = o.Found
       /\ IF o.Found = COMP_ERROR
          THEN /\ pins' = o.pins
               /\ h' = [h EXCEPT !.nSmall = @ + 1, !.retSmall = 0]
               /\ SmallCap_Return(0)
          ELSE /\ pins' = [ADC_PORT |-> NoPins, ADC_DDR |-> SmallCapPullDown,
                           R_PORT |-> Rh(Probes.ID_1), R_DDR |-> Rh(Probes.ID_1)]
               /\ sc' = [run |-> TRUE, Flag |-> 3, TempByte |-> {}, Ticks |-> 0,
                         Ticks2 |-> 0, U_c |-> 0, LastU |-> 0]
               /\ h' = [h EXCEPT !.nSmall = @ + 1]
               /\ pc' = "sc_timer"
               /\ UNCHANGED mc
  /\ UNCHANGED <<rc, tmr, esr, calc, dut, build, reg, Cap, Probes, NV, Cfg, lc>>

\* one run of the timer loop which sees a flag in TIFR1
SmallCap_Timer ==
  /\ pc = "sc_timer"
  /\ \E flags \in {{"TOV1"}, {"ICF1"}, {"ICF1", "TOV1"}} :
       IF "ICF1" \in flags
       THEN /\ sc.Ticks2 \in CaptureAt
            /\ sc' = [sc EXCEPT !.TempByte = flags]
            /\ pc' = "sc_stop"
       ELSE /\ sc' = [sc EXCEPT !.TempByte = flags, !.Ticks2 = U16(@ + 1)]
            /\ pc' = IF U16(sc.Ticks2 + 1) = OverflowBudget
                     THEN "sc_stop" ELSE "sc_timer"
  /\ UNCHANGED <<rc, tmr, esr, calc, dut, build, Found, reg, Cap, pins, Probes, NV, Cfg, mc, lc, h>>

\* skip measurement if charging took too long
\* (faulty variant: the budget itself accepted)
SmallCapFlag_Above(Ticks2) == IF Ticks2 > OverflowBudget THEN 1 ELSE 3

SmallCapFlag(Ticks2) == IF Ticks2 >= OverflowBudget THEN 1 ELSE 3

\* stop counter, catch missed overflow, read DUT, start discharging
SmallCap_Stop ==
  /\ pc = "sc_stop"
  /\ \E ICR1 \in TickReads, later \in BOOLEAN, u \in UcReads :
       LET missed == later /\ "TOV1" \in sc.TempByte
           Ticks2 == IF missed THEN U16(sc.Ticks2 + 1) ELSE sc.Ticks2
           Flag == SmallCapFlag(Ticks2)
       IN  /\ pins' = [pins EXCEPT !.R_PORT = NoPins, !.R_DDR = Rh(Probes.ID_1)]
           /\ IF Flag = 3
              THEN /\ sc' = [sc EXCEPT !.Ticks = ICR1, !.Ticks2 = Ticks2,
                                       !.Flag = Flag,
                                       !.U_c = IF build.HW_ADJUST_CAP THEN @ ELSE u]
                   /\ pc' = "sc_calc"
                   /\ UNCHANGED <<mc, h>>
              ELSE /\ SmallCap_Return(Flag)
                   /\ h' = [h EXCEPT !.retSmall = Flag]
  /\ UNCHANGED <<rc, tmr, esr, calc, dut, build, Found, reg, Cap, Probes, NV, Cfg, lc>>

\* capacitance from the timer ticks: Scale, Raw and compensated Value
\* (faulty variant: the offset subtracted without the comparison)
SmallCapValue_NoClamp(Ticks, Ticks2, factor, CapZero) ==
  LET Raw0 == Ticks + Ticks2 * 65536
      Raw1 == IF Raw0 > 2 THEN Raw0 - 2 ELSE Raw0
      big == Raw1 > UINT32_MAX_1000
      Raw2 == IF big THEN Raw1 \div 1000 ELSE Raw1
      Scale == IF big THEN -12 + 3 ELSE -12
      Raw == MulDivU32(Raw2, factor, CPU_FREQ \div 10000)
  IN  [Scale |-> Scale, Raw |-> Raw,
       Value |-> IF Scale = -12 THEN Raw - CapZero ELSE Raw]

SmallCapValue(Ticks, Ticks2, factor, CapZero) ==
  LET Raw0 == Ticks + Ticks2 * 65536
      Raw1 == IF Raw0 > 2 THEN Raw0 - 2 ELSE Raw0
      big == Raw1 > UINT32_MAX_1000
      Raw2 == IF big THEN Raw1 \div 1000 ELSE Raw1
      Scale == IF big THEN -12 + 3 ELSE -12
      Raw3 == MulDivU32(Raw2, factor, CPU_FREQ \div 10000)
      Raw == IF CAP_FACTOR_SMALL # 0
             THEN MulDivU32(Raw3, 1000, 1000 - CAP_FACTOR_SMALL) ELSE Raw3
      Value == IF Scale = -12
               THEN (IF Raw >= CapZero THEN Raw - CapZero ELSE 0)
               ELSE Raw
  IN  [Scale |-> Scale, Raw |-> Raw, Value |-> Value]

\* (faulty variant: no minimum of 100nF)
AdjustWindow_NoMinimum(c) ==
  \/ (c.Scale = -12)
  \/ (c.Scale = -9 /\ c.Value <= 20000)

\* self-adjustment window: 100nF up to 20uF
AdjustWindow(c) ==
  \/ (c.Scale = -12 /\ c.Value >= 100000)
  \/ (c.Scale = -9 /\ c.Value <= 20000)

\* voltage loss is measured for caps > 50nF
LossWindow(c) == CmpValue(c.Value, c.Scale, 50, -9) = 1

\* position after the self-adjustment section
AfterAdjust(c) ==
  IF build.SW_C_VLOSS /\ LossWindow(c) THEN "sc_vloss" ELSE "sc_ret"

\* calculate capacitance and copy data
SmallCap_Calc ==
  /\ pc = "sc_calc"
  /\ \E factor \in SmallCapFactors :
       \E c \in {SmallCapValue(sc.Ticks, sc.Ticks2, factor, NV.CapZero)} :
           /\ Cap' = [Cap EXCEPT !.A = Probes.ID_2, !.B = Probes.ID_1,
                                 !.Scale = c.Scale, !.Raw = c.Raw,
                                 !.Value = c.Value]
           /\ pc' = IF ~build.HW_ADJUST_CAP /\ AdjustWindow(c)
                    THEN "sc_wait" ELSE AfterAdjust(c)
           /\ h' = [h EXCEPT !.written = TRUE, !.factor = factor,
                             !.count = sc.Ticks + sc.Ticks2 * 65536]
  /\ UNCHANGED <<rc, tmr, esr, calc, dut, build, Found, reg, pins, Probes, NV, Cfg, mc, lc, sc>>

\* while (ReadU(Probes.Ch_1) > 980): one reading of the discharge wait
SmallCap_Wait ==
  /\ pc = "sc_wait"
  /\ \E u \in WaitReads :
       /\ sc' = [sc EXCEPT !.LastU = u]
       /\ pc' = IF u > 980 THEN "sc_wait" ELSE "sc_adjust"
  /\ UNCHANGED <<rc, tmr, esr, calc, dut, build, Found, reg, Cap, pins, Probes, NV, Cfg, mc, lc, h>>

\* offset of the bandgap reference from the readings with Vcc and bandgap
\* reference, and the local U_bandgap after the update
AdjustRef(U_vcc, U_bg, Bandgap, Value) ==
  LET Offset == I16(U_vcc - U_bg)
      large == Offset < -4 \/ Offset > 4
      TempLong == CDiv(Offset * Bandgap, U_bg)
  IN  [RefDelta |-> IF large THEN I8(TempLong) ELSE 0,
       Ticks |-> IF large THEN U16(Bandgap + I8(Value)) ELSE Bandgap]

\* (faulty variant: an offset outside the range stored as the nearest limit)
AdjustComp_Limit(U_c, Ticks, CompOffset) ==
  LET Offset == I16(U_c - Ticks)
  IN  IF Offset < -50 THEN -50 ELSE IF Offset > 50 THEN 50 ELSE Offset

\* offset of the analog comparator, kept if outside -50mV - 50mV
AdjustComp(U_c, Ticks, CompOffset) ==
  LET Offset == I16(U_c - Ticks)
  IN  IF Offset > -50 /\ Offset < 50 THEN Offset ELSE CompOffset

\* Cfg.AutoScale = 0 for the reading with Vcc reference, then
\* Cfg.AutoScale = 1: enable auto scaling again
\* (faulty variant: auto scaling left disabled)
EnableAutoScale_Off(cfg) == [cfg EXCEPT !.AutoScale = 0]

EnableAutoScale(cfg) == [cfg EXCEPT !.AutoScale = 1]

\* Cfg.Samples = 5 for the two readings, then back to the default
DefaultSamples(cfg) == [cfg EXCEPT !.Samples = ADC_SAMPLES]

\* self-adjust the offsets of bandgap reference and analog comparator
SmallCap_Adjust ==
  /\ pc = "sc_adjust"
  /\ \E U_vcc \in VccReads, U_bg \in BandgapReads :
       LET r == AdjustRef(U_vcc, U_bg, Cfg.Bandgap, Cap.Value)
       IN  /\ NV' = [NV EXCEPT !.RefOffset = I8(@ + r.RefDelta),
                               !.CompOffset = AdjustComp(sc.U_c, r.Ticks, @)]
           /\ sc' = [sc EXCEPT !.Ticks = r.Ticks, !.Ticks2 = U_bg]
  /\ Cfg' = EnableAutoScale(Cfg)
  /\ pins' = [pins EXCEPT !.R_DDR = Rh(Probes.ID_1)]
  /\ pc' = AfterAdjust(Cap)
  /\ UNCHANGED <<rc, tmr, esr, calc, dut, build, Found, reg, Cap, Probes, mc, lc, h>>

\* V_loss in 0.1% from start and end voltage (zero offset considered)
VoltageLoss(U_Zero, u1, u2) ==
  LET Ticks2 == IF u1 > U_Zero THEN u1 - U_Zero ELSE 0
      Ticks == IF u2 > U_Zero THEN u2 - U_Zero ELSE 0
  IN  IF Ticks2 > Ticks
      THEN {U16(((Ticks2 - Ticks) * 500) \div Ticks2)}
      ELSE {}

\* get V_loss (SW_C_VLOSS): discharge, charge via Rl, measure the loss
SmallCap_VLoss ==
  /\ pc = "sc_vloss"
  /\ \E o \in DischargeOutcomes(Found, pins),
        u0 \in LossReads0, u1 \in LossReads1, u2 \in LossReads2 :
       /\ Found' = o.Found
       /\ IF o.Found = COMP_ERROR
          THEN /\ pins' = o.pins
               /\ h' = [h EXCEPT !.retSmall = 0]
               /\ SmallCap_Return(0)
               /\ UNCHANGED <<Cap, Cfg>>
          ELSE /\ pins' = [ADC_PORT |-> NoPins, ADC_DDR |-> Pin(Probes.ID_2),
                           R_PORT |-> NoPins, R_DDR |-> NoPins]
               /\ Cfg' = DefaultSamples(Cfg)
               /\ Cap' = IF VoltageLoss(u0, u1, u2) = {} THEN Cap
                         ELSE [Cap EXCEPT !.U_loss =
                                 CHOOSE x \in VoltageLoss(u0, u1, u2) : TRUE]
               /\ h' = [h EXCEPT !.retSmall = sc.Flag]
               /\ SmallCap_Return(sc.Flag)
  /\ UNCHANGED <<rc, tmr, esr, calc, dut, build, reg, Probes, NV, lc>>

\* return Flag
SmallCap_Ret ==
  /\ pc = "sc_ret"
  /\ h' = [h EXCEPT !.retSmall = sc.Flag]
  /\ SmallCap_Return(sc.Flag)
  /\ UNCHANGED <<rc, tmr, esr, calc, dut, build, Found, reg, Cap, pins, Probes, NV, Cfg, lc>>

(***************************************************************************)
(* MeasureESR (SW_ESR and SW_OLD_ESR)                                      *)
(***************************************************************************)

\* the frame before the call: the argument (0 for NULL, 1 for &Caps[ID])
EsrFrame(ptr) ==
  [run |-> FALSE, Cap |-> ptr, ESR |-> UINT16_MAX, U_1 |-> 0, U_2 |-> 0,
   U_3 |-> 0, U_4 |-> 0, n |-> 0, Sum_1 |-> 0, Sum_2 |-> 0]

EsrHistory ==
  [pulses |-> 0, Sum_1 |-> 0, Sum_2 |-> 0, negTopUp |-> FALSE,
   posTopUp |-> FALSE, wdt |-> 0, reads |-> <<0, 0, 0, 0>>,
   topUp |-> SafePins]

InitESR ==
  /\ pc = "esr_idle"
  /\ build \in EsrBuilds
  /\ Found = COMP_CAPACITOR
  /\ reg = [Resistors |-> NoResistors, Diodes |-> NoDiodes]
  /\ Cap \in EsrCaps
  /\ pins = SafePins
  /\ Probes = [ID_1 |-> 0, ID_2 |-> 0]
  /\ \E RiL \in RiLValues, z \in RZeroValues :
       NV = [InitNV EXCEPT !.RiL = RiL,
                           !.RZero = IF build.R_MULTIOFFSET
                                     THEN [i \in ProbeIDs |-> z] ELSE z]
  /\ Cfg = InitCfg
  /\ mc = NoFrame
  /\ lc = NoFrame
  /\ sc = NoFrame
  /\ rc = NoFrame
  /\ tmr = NoFrame
  /\ calc = NoFrame
  /\ esr \in {EsrFrame(ptr) : ptr \in {0, 1}}
  /\ dut \in {FlatReads, LoadedReads, WeakReads}
  /\ h = EsrHistory

\* GetOffsetIndex(): index of the probe pair in the offset tables
GetOffsetIndex(p1, p2) == p1 + p2 - 1

\* minimum capacitance of the variant in nF
\* (faulty variant: the minimum of SW_ESR in both variants)
EsrMinimum_Same == IF build.SW_OLD_ESR THEN 10 ELSE 10

EsrMinimum == IF build.SW_OLD_ESR THEN 180 ELSE 10

\* check for a capacitor of the minimum size
EsrTooSmall(ptr, c) ==
  ptr = 0 \/ CmpValue(c.Value, c.Scale, EsrMinimum, -9) < 0

\* delay for pulse in MCU cycles: n = (uint8_t)U_1
DelayCycles ==
  IF build.SW_OLD_ESR
  THEN U16((MCU_CYCLES_PER_ADC * 25) \div 10 - MCU_CYCLES_PER_US * 5 - 10)
  ELSE U16((MCU_CYCLES_PER_ADC * 25) \div 10 - MCU_CYCLES_PER_US * 10
           - MCU_CYCLES_PER_US * 2 - 10
           - (IF CPU_FREQ = 8000000 THEN 4 ELSE 0))

\* SetUpDelayTimer() / SetupDelayTimer(): 1 on success, 0 on error
SetUpDelayTimer(Cycles) == IF Cycles < CYCLE_OFFSET THEN 0 ELSE 1

\* pins when the measurement loop starts
EsrStartPins(p, pr) ==
  IF build.SW_OLD_ESR
  THEN [ADC_PORT |-> NoPins, ADC_DDR |-> Pin(pr.ID_2),
        R_PORT |-> NoPins, R_DDR |-> NoPins]
  ELSE [p EXCEPT !.ADC_PORT = NoPins]

\* MeasureESR() up to the measurement loop, or its early return
MeasureESR_Enter ==
  /\ pc = "esr_idle"
  /\ IF EsrTooSmall(esr.Cap, Cap)
     THEN /\ pc' = "esr_done"
          /\ UNCHANGED <<Found, pins, Probes, esr>>
     ELSE \E o \in DischargeOutcomes(Found, pins) :
            /\ Found' = o.Found
            /\ IF o.Found = COMP_ERROR
               THEN /\ pc' = "esr_done"
                    /\ pins' = o.pins
                    /\ UNCHANGED <<Probes, esr>>
               ELSE /\ Probes' = UpdateProbes2(Cap.A, Cap.B)
                    /\ IF SetUpDelayTimer(U8(DelayCycles)) = 0
                       THEN /\ pc' = "esr_done"
                            /\ pins' = o.pins
                            /\ esr' = [esr EXCEPT !.Sum_1 = 1, !.Sum_2 = 1,
                                                  !.U_1 = DelayCycles,
                                                  !.n = U8(DelayCycles)]
                       ELSE /\ pc' = "esr_loop"
                            /\ pins' = EsrStartPins(o.pins, UpdateProbes2(Cap.A, Cap.B))
                            /\ esr' = [esr EXCEPT
                                 !.run = TRUE, !.Sum_1 = 1, !.Sum_2 = 1,
                                 !.U_1 = DelayCycles,
                                 !.U_2 = IF build.SW_OLD_ESR THEN @ ELSE 50,
                                 !.U_4 = IF build.SW_OLD_ESR THEN @ ELSE 0,
                                 !.n = EsrLoops]
  /\ UNCHANGED <<rc, tmr, calc, dut, build, reg, Cap, NV, Cfg, mc, lc, sc, h>>

\* ADCW of the four conversions of the loop run with counter n
EsrReads(n) == IF n \in EsrSampleAt THEN {dut, SagReads, PeakReads} ELSE {dut}

\* charge top-up half-pulses of a loop run: SW_ESR looks at the readings of
\* the run before, SW_OLD_ESR at those of this run
\* (faulty variant: SW_ESR looks at the reading of this run as well)
NegTopUp_ThisRun(r) == IF build.SW_OLD_ESR THEN r[4] <= 100 ELSE r[4] < 50

NegTopUp(r) == IF build.SW_OLD_ESR THEN r[4] <= 100 ELSE esr.U_4 < 50
PosTopUp(r) == IF build.SW_OLD_ESR THEN r[2] <= 100 ELSE esr.U_2 < 50

\* wdt_reset() calls of one run of the loop
WdtResets == IF build.SW_OLD_ESR THEN 2 ELSE 1

\* port registers when the last top-up half-pulse of a run has ended (as
\* they were when the run has none): SW_ESR gives the negative one first,
\* SW_OLD_ESR the positive one, each with the other probe pulled down
TopUpPins(r) ==
  LET last == IF build.SW_OLD_ESR
              THEN (IF NegTopUp(r) THEN Probes.ID_2 ELSE Probes.ID_1)
              ELSE (IF PosTopUp(r) THEN Probes.ID_1 ELSE Probes.ID_2)
  IN  IF NegTopUp(r) \/ PosTopUp(r)
      THEN [pins EXCEPT !.ADC_DDR = Pin(last), !.R_DDR = NoPins,
                        !.R_PORT = NoPins]
      ELSE pins

\* (faulty variant: one reading of each kind added per run)
MeasureESR_Pulse_Once ==
  /\ pc = "esr_loop"
  /\ esr.n > 0
  /\ \E r \in EsrReads(esr.n) :
       /\ esr' = [esr EXCEPT
            !.U_1 = IF build.SW_OLD_ESR THEN U16(r[1] + r[3]) ELSE r[1],
            !.U_2 = IF build.SW_OLD_ESR THEN U16(r[2] + r[4]) ELSE r[2],
            !.U_3 = r[3],
            !.U_4 = r[4],
            !.Sum_1 = @ + r[1],
            !.Sum_2 = @ + r[2],
            !.n = U8(@ - 1)]
       /\ h' = [h EXCEPT !.pulses = @ + 1, !.negTopUp = NegTopUp(r),
                         !.posTopUp = PosTopUp(r), !.wdt = @ + WdtResets,
                         !.reads = r, !.topUp = TopUpPins(r)]
  /\ pins' = [pins EXCEPT !.ADC_DDR = Pin(Probes.ID_2),
                          !.R_PORT = IF build.SW_OLD_ESR THEN NoPins
                                     ELSE Rl(Probes.ID_1),
                          !.R_DDR = NoPins]
  /\ pc' = IF U8(esr.n - 1) > 0 THEN "esr_loop" ELSE "esr_result"
  /\ UNCHANGED <<rc, tmr, calc, dut, build, Found, reg, Cap, Probes, NV, Cfg, mc, lc, sc>>

\* one run of the measurement loop: pulses, four readings, sums
MeasureESR_Pulse ==
  /\ pc = "esr_loop"
  /\ esr.n > 0
  /\ \E r \in EsrReads(esr.n) :
       /\ esr' = [esr EXCEPT
            !.U_1 = IF build.SW_OLD_ESR THEN U16(r[1] + r[3]) ELSE r[1],
            !.U_2 = IF build.SW_OLD_ESR THEN U16(r[2] + r[4]) ELSE r[2],
            !.U_3 = r[3],
            !.U_4 = r[4],
            !.Sum_1 = IF build.SW_OLD_ESR THEN @ + U16(r[1] + r[3])
                      ELSE @ + r[1] + r[3],
            !.Sum_2 = IF build.SW_OLD_ESR THEN @ + U16(r[2] + r[4])
                      ELSE @ + r[2] + r[4],
            !.n = U8(@ - 1)]
       /\ h' = [h EXCEPT !.pulses = @ + 1, !.negTopUp = NegTopUp(r),
                         !.posTopUp = PosTopUp(r), !.wdt = @ + WdtResets,
                         !.reads = r, !.topUp = TopUpPins(r)]
  /\ pins' = [pins EXCEPT !.ADC_DDR = Pin(Probes.ID_2),
                          !.R_PORT = IF build.SW_OLD_ESR THEN NoPins
                                     ELSE Rl(Probes.ID_1),
                          !.R_DDR = NoPins]
  /\ pc' = IF U8(esr.n - 1) > 0 THEN "esr_loop" ELSE "esr_result"
  /\ UNCHANGED <<rc, tmr, calc, dut, build, Found, reg, Cap, Probes, NV, Cfg, mc, lc, sc>>

\* valid measurement: the loaded sum is above the unloaded one
\* (faulty variant: equal sums accepted)
ValidMeasurement_OrEqual(Sum_1, Sum_2) == Sum_2 >= Sum_1

ValidMeasurement(Sum_1, Sum_2) == Sum_2 > Sum_1

\* (faulty variant: SW_OLD_ESR keeps the sum of an invalid measurement)
AcrossDUT_Keep(Sum_1, Sum_2) ==
  IF ValidMeasurement(Sum_1, Sum_2) THEN Sum_2 - Sum_1 ELSE Sum_2

\* voltage across the DUT (raw value): Sum_2 after the check
AcrossDUT(Sum_1, Sum_2) ==
  IF ValidMeasurement(Sum_1, Sum_2) THEN Sum_2 - Sum_1
  ELSE IF build.SW_OLD_ESR THEN 0 ELSE Sum_2

\* raw ESR in 0.01 Ohm: Value = (uint32_t)(NV.RiL * 10); Value *= Sum_2;
\* Value /= Sum_1; U_1 = (uint16_t)Value
RawESR(RiL, Sum_2, Sum_1) == U16(MulDivU32(U16(RiL * 10), Sum_2, Sum_1))

\* probe resistance to consider
RZeroOffset ==
  IF build.R_MULTIOFFSET
  THEN NV.RZero[GetOffsetIndex(Probes.ID_1, Probes.ID_2)]
  ELSE NV.RZero

\* ESR from raw value and offset; SW_ESR reports 0 for large caps (> 1000uF)
\* (faulty variant: no result for large caps either)
ConsiderOffset_NoZero(U_1, U_2, c) ==
  IF U_1 > U_2 THEN U16(U_1 - U_2) ELSE UINT16_MAX

ConsiderOffset(U_1, U_2, c) ==
  IF U_1 > U_2 THEN U16(U_1 - U_2)
  ELSE IF ~build.SW_OLD_ESR /\ CmpValue(c.Value, c.Scale, 1000, -6) > 0 THEN 0
  ELSE UINT16_MAX

\* process measurements: SW_ESR calculates for a valid measurement only,
\* SW_OLD_ESR always
MeasureESR_Result ==
  /\ pc = "esr_result"
  /\ LET valid == ValidMeasurement(esr.Sum_1, esr.Sum_2)
         Sum_2 == AcrossDUT(esr.Sum_1, esr.Sum_2)
     IN  IF valid \/ build.SW_OLD_ESR
         THEN \E U_1 \in {RawESR(NV.RiL, Sum_2, esr.Sum_1)} :
                esr' = [esr EXCEPT !.Sum_2 = Sum_2,
                                   !.U_1 = IF U_1 > RZeroOffset
                                           THEN U16(U_1 - RZeroOffset) ELSE U_1,
                                   !.U_2 = RZeroOffset,
                                   !.ESR = ConsiderOffset(U_1, RZeroOffset, Cap)]
         ELSE UNCHANGED esr
  /\ h' = [h EXCEPT !.Sum_1 = esr.Sum_1, !.Sum_2 = esr.Sum_2]
  /\ pins' = IF build.SW_OLD_ESR THEN pins
             ELSE [pins EXCEPT !.ADC_DDR = NoPins, !.R_PORT = NoPins]
  /\ pc' = "esr_cleanup"
  /\ UNCHANGED <<rc, tmr, calc, dut, build, Found, reg, Cap, Probes, NV, Cfg, mc, lc, sc>>

\* clean up: note the reference used, discharge DUT, return ESR
MeasureESR_Cleanup ==
  /\ pc = "esr_cleanup"
  /\ Cfg' = [Cfg EXCEPT !.Ref = "BANDGAP"]
  /\ \E o \in DischargeOutcomes(Found, pins) :
       /\ Found' = o.Found
       /\ pins' = o.pins
  /\ esr' = [esr EXCEPT !.run = FALSE]
  /\ pc' = "esr_done"
  /\ UNCHANGED <<rc, tmr, calc, dut, build, reg, Cap, Probes, NV, mc, lc, sc, h>>

(***************************************************************************)
(* SmallCap: the timer loop against Timer1                                 *)
(*                                                                         *)
(* Timer1 counts MCU cycles while the program polls TIFR1.  Each step of   *)
(* the program takes some cycles; in each of them the counter may overflow *)
(* (TOV1) and the comparator may trigger the input capture (ICF1, ICR1).   *)
(***************************************************************************)

\* MCU cycles a step of the program may take
StepCycles == {1, 2}

\* runs of the loop which see no flag change nothing but TCNT1: they are
\* taken at once up to SpinTo, and the hardware events are followed cycle
\* by cycle below NearStart and from SpinTo on
NearStart == 4
SpinTo == 65533

\* Timer1 right after TCNT1 = 0, all flags cleared, TCCR1B = (1 << CS10);
\* overflows and elapsed: overflows and cycles from the start up to the
\* input capture
TimerStarted ==
  [run |-> TRUE, TCNT1 |-> 0, ICR1 |-> 0, TIFR1 |-> {}, captured |-> FALSE,
   overflows |-> 0, elapsed |-> 0]

\* one cycle of Timer1, with the input capture in this cycle or not
Tick(t, capture) ==
  LET n == (t.TCNT1 + 1) % 65536
      before == ~t.captured
  IN  [t EXCEPT !.TCNT1 = n,
                !.TIFR1 = @ \cup (IF n = 0 THEN {"TOV1"} ELSE {})
                            \cup (IF capture THEN {"ICF1"} ELSE {}),
                !.ICR1 = IF capture THEN n ELSE @,
                !.captured = @ \/ capture,
                !.overflows = IF before /\ n = 0 THEN @ + 1 ELSE @,
                !.elapsed = IF before THEN @ + 1 ELSE @]

\* d cycles, the input capture in cycle k of them (k = 0: none)
RECURSIVE Advance(_, _, _)
Advance(t, d, k) ==
  IF d = 0 THEN t ELSE Advance(Tick(t, k = 1), d - 1, k - 1)

\* cycles in which the comparator can trigger: once per measurement
CaptureIn(t, d) == IF t.captured THEN {0} ELSE 0 .. d

\* runs of the loop without a flag
SmallCap_Spin ==
  /\ pc = "t_poll"
  /\ tmr.TIFR1 = {}
  /\ tmr.TCNT1 >= NearStart
  /\ tmr.TCNT1 < SpinTo
  /\ tmr' = [tmr EXCEPT !.TCNT1 = SpinTo,
                        !.elapsed = @ + (SpinTo - tmr.TCNT1)]
  /\ UNCHANGED <<pc, rc, esr, calc, dut, build, Found, reg, Cap, pins, Probes, NV, Cfg, mc, lc, sc, h>>

\* TempByte = TIFR1; leave the loop on ICF1
SmallCap_ReadFlags ==
  /\ pc = "t_poll"
  /\ tmr.TIFR1 # {} \/ tmr.TCNT1 < NearStart \/ tmr.TCNT1 >= SpinTo
  /\ \E d \in StepCycles :
       \E k \in CaptureIn(tmr, d) :
         \E t \in {Advance(tmr, d, k)} :
           /\ tmr' = t
           /\ sc' = [sc EXCEPT !.TempByte = t.TIFR1]
           /\ pc' = IF "ICF1" \in t.TIFR1 THEN "t_stop"
                    ELSE IF "TOV1" \in t.TIFR1 THEN "t_count"
                    ELSE "t_poll"
  /\ UNCHANGED <<rc, esr, calc, dut, build, Found, reg, Cap, pins, Probes, NV, Cfg, mc, lc, h>>

\* overflow seen: reset the flag, count it, leave the loop at the budget
SmallCap_CountOverflow ==
  /\ pc = "t_count"
  /\ \E d \in StepCycles :
       \E k \in CaptureIn(tmr, d) :
         tmr' = Advance([tmr EXCEPT !.TIFR1 = @ \ {"TOV1"}], d, k)
  /\ sc' = [sc EXCEPT !.Ticks2 = U16(@ + 1)]
  /\ pc' = IF U16(sc.Ticks2 + 1) = OverflowBudget THEN "t_stop" ELSE "t_poll"
  /\ UNCHANGED <<rc, esr, calc, dut, build, Found, reg, Cap, pins, Probes, NV, Cfg, mc, lc, h>>

\* catch missed timer overflow: the flags read last show an overflow and
\* the counter is beyond the captured value
\* (faulty variant: every overflow flag read with the capture is counted)
MissedOverflow_AnyFlag(TCNT1, Ticks, TempByte) == "TOV1" \in TempByte

MissedOverflow(TCNT1, Ticks, TempByte) ==
  TCNT1 > Ticks /\ "TOV1" \in TempByte

\* stop timer, reset ICF1, Ticks = ICR1, catch a missed overflow, check
\* the budget
SmallCap_StopTimer ==
  /\ pc = "t_stop"
  /\ \E d \in StepCycles :
       \E k \in CaptureIn(tmr, d) :
         \E t \in {Advance(tmr, d, k)} :
           LET missed == MissedOverflow(t.TCNT1, t.ICR1, sc.TempByte)
               Ticks2 == IF missed THEN U16(sc.Ticks2 + 1) ELSE sc.Ticks2
           IN  /\ tmr' = [t EXCEPT !.run = FALSE,
                                   !.TIFR1 = (@ \ {"ICF1"}) \
                                             (IF missed THEN {"TOV1"} ELSE {})]
               /\ sc' = [sc EXCEPT !.Ticks = t.ICR1, !.Ticks2 = Ticks2,
                                   !.Flag = SmallCapFlag(Ticks2)]
  /\ pins' = [pins EXCEPT !.R_PORT = NoPins, !.R_DDR = Rh(Probes.ID_1)]
  /\ pc' = "t_done"
  /\ UNCHANGED <<rc, esr, calc, dut, build, Found, reg, Cap, Probes, NV, Cfg, mc, lc, h>>

(***************************************************************************)
(* RefCap (HW_ADJUST_CAP): offsets from the fixed reference cap            *)
(***************************************************************************)

\* voltage below which the cap counts as discharged (build configuration)
CAP_DISCHARGED == 2

\* tries of the discharge loop
DischargeTries == 50

\* readings of the reference cap while it is discharged
RefDischargeReads == {0, 10}

\* stored comparator offsets at the call, over the range -50mV - 50mV
CompOffsetValues == {-50, 0, 50}

\* RefCap() does not touch the probe pins; the pins it drives are the
\* Rh control pin (ADJUST_DDR, ADJUST_PORT bit ADJUST_RH) and TP_CAP
RefFrame ==
  [run |-> TRUE, Flag |-> 0, TempByte |-> 0, Ticks |-> 0, Ticks2 |-> 0,
   U_c |-> 0, LastU |-> 0, ADJUST_DDR |-> TRUE, ADJUST_PORT |-> FALSE]

\* discharge cap: Rh control pin to output, pull down cap via Rh
RefCap_Enter ==
  /\ pc = "rc_idle"
  /\ rc' = RefFrame
  /\ pc' = "rc_discharge"
  /\ UNCHANGED <<tmr, esr, calc, dut, build, Found, reg, Cap, pins, Probes, NV, Cfg, mc, lc, sc, h>>

\* one run of the discharge loop; after the loop either timeout (return
\* Flag) or set up comparator and timer and start charging
RefCap_Discharge ==
  /\ pc = "rc_discharge"
  /\ rc.TempByte <= DischargeTries
  /\ \E u \in RefDischargeReads :
       LET TempByte == IF u <= CAP_DISCHARGED THEN 100 ELSE U8(rc.TempByte + 1)
       IN  IF TempByte <= DischargeTries
           THEN /\ rc' = [rc EXCEPT !.U_c = u, !.TempByte = TempByte]
                /\ pc' = "rc_discharge"
           ELSE IF TempByte # 100
           THEN /\ rc' = [rc EXCEPT !.U_c = u, !.TempByte = TempByte,
                                    !.run = FALSE]
                /\ pc' = "rc_done"
           ELSE /\ rc' = [rc EXCEPT !.U_c = u, !.TempByte = {},
                                    !.Ticks2 = 0, !.ADJUST_PORT = TRUE]
                /\ pc' = "rc_timer"
  /\ UNCHANGED <<tmr, esr, calc, dut, build, Found, reg, Cap, pins, Probes, NV, Cfg, mc, lc, sc, h>>

\* one run of the timer loop which sees a flag in TIFR1
RefCap_Timer ==
  /\ pc = "rc_timer"
  /\ \E flags \in {{"TOV1"}, {"ICF1"}, {"ICF1", "TOV1"}} :
       IF "ICF1" \in flags
       THEN /\ rc.Ticks2 \in CaptureAt
            /\ rc' = [rc EXCEPT !.TempByte = flags]
            /\ pc' = "rc_stop"
       ELSE /\ rc' = [rc EXCEPT !.TempByte = flags, !.Ticks2 = U16(@ + 1)]
            /\ pc' = IF U16(rc.Ticks2 + 1) = OverflowBudget
                     THEN "rc_stop" ELSE "rc_timer"
  /\ UNCHANGED <<tmr, esr, calc, dut, build, Found, reg, Cap, pins, Probes, NV, Cfg, mc, lc, sc, h>>

\* check for charging timeout: ok to proceed below the budget
RefCapFlag(Ticks2) == IF Ticks2 < OverflowBudget THEN 1 ELSE 0

\* stop counter, disable charging, reset a missed overflow flag (it is not
\* counted), read the cap, start discharging
RefCap_Stop ==
  /\ pc = "rc_stop"
  /\ \E u \in UcReads :
       LET Flag == RefCapFlag(rc.Ticks2)
       IN  /\ rc' = [rc EXCEPT !.U_c = u, !.Flag = Flag,
                               !.ADJUST_PORT = FALSE, !.ADJUST_DDR = TRUE,
                               !.run = (Flag # 0)]
           /\ pc' = IF Flag # 0 THEN "rc_wait" ELSE "rc_done"
  /\ UNCHANGED <<tmr, esr, calc, dut, build, Found, reg, Cap, pins, Probes, NV, Cfg, mc, lc, sc, h>>

\* while (ReadU(TP_CAP) > 980): one reading of the discharge wait
RefCap_Wait ==
  /\ pc = "rc_wait"
  /\ \E u \in WaitReads :
       /\ rc' = [rc EXCEPT !.LastU = u]
       /\ pc' = IF u > 980 THEN "rc_wait" ELSE "rc_adjust"
  /\ UNCHANGED <<tmr, esr, calc, dut, build, Found, reg, Cap, pins, Probes, NV, Cfg, mc, lc, sc, h>>

\* offset of the bandgap reference from the readings with Vcc and bandgap
\* reference, and the local U_bandgap after the update
RefCapRef(U_vcc, U_bg, Bandgap) ==
  LET Offset == I16(U_vcc - U_bg)
      large == Offset < -4 \/ Offset > 4
      Value == CDiv(Offset * Bandgap, U_bg)
  IN  [RefDelta |-> IF large THEN I8(Value) ELSE 0,
       Ticks |-> IF large THEN U16(Bandgap + I8(Value)) ELSE Bandgap]

\* offset of the analog comparator, kept if outside -50mV - 50mV
RefCapComp(U_c, Ticks, CompOffset) ==
  LET Offset == I16(U_c - Ticks)
  IN  IF Offset > -50 /\ Offset < 50 THEN Offset ELSE CompOffset

\* get offsets of bandgap reference and analog comparator, return Flag
RefCap_Adjust ==
  /\ pc = "rc_adjust"
  /\ \E U_vcc \in VccReads, U_bg \in BandgapReads :
       LET r == RefCapRef(U_vcc, U_bg, Cfg.Bandgap)
       IN  /\ NV' = [NV EXCEPT !.RefOffset = I8(@ + r.RefDelta),
                               !.CompOffset = RefCapComp(rc.U_c, r.Ticks, @)]
           /\ Cfg' = [EnableAutoScale(Cfg) EXCEPT !.Bandgap = r.Ticks]
           /\ rc' = [rc EXCEPT !.Ticks = r.Ticks, !.Ticks2 = U_bg,
                               !.ADJUST_DDR = TRUE, !.run = FALSE]
  /\ pc' = "rc_done"
  /\ UNCHANGED <<tmr, esr, calc, dut, build, Found, reg, Cap, pins, Probes, mc, lc, sc, h>>

(***************************************************************************)
(* Specification                                                           *)
(***************************************************************************)

Next ==
  \/ MeasureCap_Enter
  \/ LargeCap_Start
  \/ LargeCap_Pulse
  \/ LargeCap_Eval
  \/ LargeCap_SelfDischarge
  \/ LargeCap_Leak
  \/ LargeCap_Calc
  \/ MeasureCap_AfterLarge
  \/ SmallCap_Start
  \/ SmallCap_Timer
  \/ SmallCap_Stop
  \/ SmallCap_Calc
  \/ SmallCap_Wait
  \/ SmallCap_Adjust
  \/ SmallCap_VLoss
  \/ SmallCap_Ret
  \/ MeasureCap_Plausibility
  \/ MeasureCap_Cleanup

Spec == Init /\ [][Next]_vars

NextESR ==
  \/ MeasureESR_Enter
  \/ MeasureESR_Pulse
  \/ MeasureESR_Result
  \/ MeasureESR_Cleanup

\* calls of MeasureESR with a measured capacitor
SpecESR == InitESR /\ [][NextESR]_vars

\* one build and one call: self-adjustment in software, no component found
\* before, pins released
FairInit ==
  /\ Init
  /\ build = [SW_C_VLOSS |-> TRUE, HW_ADJUST_CAP |-> FALSE]
  /\ Found = COMP_NONE
  /\ pins = SafePins

\* the program runs on: the MCU executes the next step whenever there is one
FairSpec == FairInit /\ [][Next]_vars /\ WF_vars(Next)

\* one build and one call as above, with the stored zero offset of the
\* capacitance drawn from the range of its type and the stored offset of
\* the comparator from its valid range
InitCal ==
  /\ pc = "idle"
  /\ build = [SW_C_VLOSS |-> TRUE, HW_ADJUST_CAP |-> FALSE]
  /\ Found = COMP_NONE
  /\ reg = [Resistors |-> NoResistors, Diodes |-> NoDiodes]
  /\ Cap = StaleCap
  /\ pins = SafePins
  /\ Probes = [ID_1 |-> 0, ID_2 |-> 0]
  /\ NV \in {[InitNV EXCEPT !.CapZero = z, !.CompOffset = o] :
            z \in CapZeroValues, o \in CompOffsetValues}
  /\ Cfg = InitCfg
  /\ mc = NoFrame
  /\ lc = NoFrame
  /\ sc = NoFrame
  /\ rc = NoFrame
  /\ tmr = NoFrame
  /\ calc = NoFrame
  /\ esr = NoFrame
  /\ dut = FlatReads
  /\ h = InitHistory

SpecCal == InitCal /\ [][Next]_vars

NextRef ==
  \/ RefCap_Enter
  \/ RefCap_Discharge
  \/ RefCap_Timer
  \/ RefCap_Stop
  \/ RefCap_Wait
  \/ RefCap_Adjust

\* a call of RefCap in a build with the reference cap, the stored offset of
\* the comparator drawn from its valid range
InitRef ==
  /\ pc = "rc_idle"
  /\ build = [SW_C_VLOSS |-> TRUE, HW_ADJUST_CAP |-> TRUE]
  /\ Found = COMP_NONE
  /\ reg = [Resistors |-> NoResistors, Diodes |-> NoDiodes]
  /\ Cap = StaleCap
  /\ pins = SafePins
  /\ Probes = [ID_1 |-> 0, ID_2 |-> 0]
  /\ NV \in {[InitNV EXCEPT !.CompOffset = o] : o \in CompOffsetValues}
  /\ Cfg = InitCfg
  /\ mc = NoFrame
  /\ lc = NoFrame
  /\ sc = NoFrame
  /\ rc = NoFrame
  /\ tmr = NoFrame
  /\ calc = NoFrame
  /\ esr = NoFrame
  /\ dut = FlatReads
  /\ h = InitHistory

\* the two self-adjustments: calls of MeasureCap in a build which adjusts in
\* SmallCap, and calls of RefCap
SpecAdjust == (InitCal \/ InitRef) /\ [][Next \/ NextRef]_vars

NextTimer ==
  \/ SmallCap_Spin
  \/ SmallCap_ReadFlags
  \/ SmallCap_CountOverflow
  \/ SmallCap_StopTimer

\* SmallCap has started Timer1 and charging for a DUT with nothing found
\* before (MeasureCap on a probe pair, LargeCap returned 2)
InitTimer ==
  /\ pc = "t_poll"
  /\ build = [SW_C_VLOSS |-> TRUE, HW_ADJUST_CAP |-> FALSE]
  /\ Found = COMP_NONE
  /\ reg = [Resistors |-> NoResistors, Diodes |-> NoDiodes]
  /\ Cap = ResetCap(StaleCap)
  /\ \E pp \in ProbePairs :
       /\ Probes = UpdateProbes2(pp[1], pp[2])
       /\ mc = [run |-> TRUE, Probe1 |-> pp[1], Probe2 |-> pp[2], TempByte |-> 2]
  /\ pins = [ADC_PORT |-> NoPins, ADC_DDR |-> Pin(Probes.ID_2),
             R_PORT |-> Rh(Probes.ID_1), R_DDR |-> Rh(Probes.ID_1)]
  /\ NV = InitNV
  /\ Cfg = InitCfg
  /\ lc = NoFrame
  /\ sc = [run |-> TRUE, Flag |-> 3, TempByte |-> {}, Ticks |-> 0,
           Ticks2 |-> 0, U_c |-> 0, LastU |-> 0]
  /\ rc = NoFrame
  /\ tmr = TimerStarted
  /\ calc = NoFrame
  /\ esr = NoFrame
  /\ dut = FlatReads
  /\ h = [InitHistory EXCEPT !.resetCap = ResetCap(StaleCap), !.nLarge = 1,
                             !.nSmall = 1, !.retLarge = 2, !.attempts = 2]

\* the timer loop of SmallCap, cycle by cycle
SpecTimer == InitTimer /\ [][NextTimer]_vars

\* calls of MeasureCap and calls of MeasureESR
SpecAll == (Init \/ InitESR) /\ [][Next \/ NextESR]_vars

(***************************************************************************)
(* Properties                                                              *)
(***************************************************************************)

Returned == pc = "done"
InCall == pc \notin {"idle", "done"}

\* C1: LargeCap starts with 10ms pulses; an attempt that ends with one pulse
\* above 1300mV restarts with 1ms pulses from the 10ms mode only, and returns
\* 2 from the 1ms mode; there are never more than two attempts.
C1_AtMostTwoAttempts ==
  /\ [](/\ h.attempts <= 2
        /\ (lc.run /\ h.attempts = 1 /\ pc # "large_cap")
             => lc.Mode = {"PULL_10MS", "PULL_UP"}
        /\ (lc.run /\ h.attempts = 2) => lc.Mode = {"PULL_1MS", "PULL_UP"}
        /\ (h.retLarge = 2) => h.attempts = 2)
  /\ [][(pc = "lc_eval" /\ lc.Pulses = 1 /\ lc.U_Cap > 1300)
          => IF "PULL_10MS" \in lc.Mode
             THEN /\ pc' = "large_cap"
                  /\ lc'.Mode = {"PULL_1MS", "PULL_UP"}
                  /\ h.attempts = 1
             ELSE /\ pc' = "after_large"
                  /\ mc'.TempByte = 2
                  /\ h.attempts = 2]_vars

C1_Witness ==
  pc = "after_large" /\ mc.TempByte = 2 /\ h.attempts = 2

\* C2: when the timer loop of SmallCap ends without the input capture flag,
\* SmallCap returns 1 and the record is as it was when SmallCap was called.
C2_TimeoutWritesNothing ==
  /\ []((h.retSmall = 1) => Cap = h.resetCap)
  /\ [][(pc = "sc_stop" /\ "ICF1" \notin sc.TempByte)
          => /\ sc.Ticks2 = OverflowBudget
             /\ pc' = "plausibility"
             /\ mc'.TempByte = 1
             /\ Cap' = Cap]_vars

C2_Witness ==
  pc = "plausibility" /\ h.retSmall = 1 /\ Cap = h.resetCap /\ h.nSmall = 1

\* C3: when the measurement loop ends with the loaded sum Sum_2 not above
\* the unloaded sum Sum_1, MeasureESR returns UINT16_MAX in both variants.
C3_InvalidSumsGiveSentinel ==
  (/\ pc \in {"esr_cleanup", "esr_done"}
   /\ h.pulses = EsrLoops
   /\ h.Sum_2 <= h.Sum_1)
    => esr.ESR = UINT16_MAX

C3_Witness ==
  /\ pc = "esr_done"
  /\ h.pulses = EsrLoops
  /\ h.Sum_2 < h.Sum_1
  /\ esr.ESR = UINT16_MAX
  /\ CmpValue(Cap.Value, Cap.Scale, 1000, -6) > 0

\* C4 as stated: on every return path all four port registers are 0.
C4_SafeOnEveryReturn == Returned => pins = SafePins

\* C4 as amended: the registers are 0 after a call that ran the estimators;
\* a skipped call returns with the registers as they were at entry.
C4_SafeAfterMeasurement ==
  Returned => IF h.skipped THEN pins = h.entryPins ELSE pins = SafePins

C4_Witness ==
  Returned /\ ~h.skipped /\ h.entryPins = DirtyPins /\ pins = SafePins

\* C5: once Check.Found is COMP_ERROR during a call of MeasureCap it stays
\* COMP_ERROR until the call returns.
C5_ErrorIsKept ==
  [][(InCall /\ Found = COMP_ERROR) => Found' = COMP_ERROR]_vars

\* C6: with the prior classification resistor and a successful estimator
\* that wrote more than 4.3uF, the plausibility step reports a capacitor.
C6_LargeCapBehindResistor ==
  (/\ pc = "cleanup"
   /\ h.plausFound = COMP_RESISTOR
   /\ (h.retLarge = 3 \/ h.retSmall = 3)
   /\ CmpValue(Cap.Value, Cap.Scale, 4300, -9) = 1)
    => Found = COMP_CAPACITOR

\* C7: a diode with Vf below 1500mV between the probes of the call: no
\* estimator runs, Check.Found is unchanged and the record is at its
\* reset defaults on return.
LowVfDiode ==
  \E i \in 1 .. Len(reg.Diodes) :
    /\ reg.Diodes[i].A = mc.Probe1
    /\ reg.Diodes[i].C = mc.Probe2
    /\ reg.Diodes[i].V_f < 1500

C7_DiodeSkips ==
  (pc # "idle" /\ LowVfDiode)
    => /\ Returned
       /\ h.nLarge = 0 /\ h.nSmall = 0
       /\ Found = h.entryFound
       /\ Cap.Scale = -12 /\ Cap.Raw = 0 /\ Cap.Value = 0

C7_Witness ==
  Returned /\ LowVfDiode /\ h.entryFound = COMP_DIODE /\ Cap.Scale = -12

\* C8: after a failed discharge inside an estimator the record is exactly
\* as MeasureCap's reset left it.
C8_ErrorLeavesReset ==
  (pc = "plausibility" /\ Found = COMP_ERROR) => Cap = h.resetCap

\* C9: every call of MeasureCap returns.
C9_Terminates == <>Returned

\* C10: LargeCap runs first and once per measurement that is not skipped,
\* SmallCap runs at most once, and only after LargeCap returned 2.
C10_EstimatorOrder ==
  /\ h.nLarge <= 1 /\ h.nSmall <= 1
  /\ h.skipped => (h.nLarge = 0 /\ h.nSmall = 0)
  /\ (h.nSmall = 1) => (h.nLarge = 1 /\ h.retLarge = 2)
  /\ (pc \in {"small_cap", "sc_timer", "sc_stop", "sc_calc", "sc_wait",
              "sc_adjust", "sc_vloss", "sc_ret"}) => h.retLarge = 2
  /\ (pc \in {"plausibility", "cleanup"} \/ (Returned /\ ~h.skipped))
       => (h.nLarge = 1 /\ (h.nSmall = 1 <=> h.retLarge = 2))

C10_Witness ==
  Returned /\ h.nLarge = 1 /\ h.nSmall = 1 /\ h.retLarge = 2 /\ h.retSmall = 3

\* C11: with Check.Found at diode rank or above, the plausibility step
\* leaves Check.Found as it is, whatever the estimators returned and
\* whatever the record holds.
C11_DiodeRankKept ==
  [][(pc = "plausibility" /\ Found >= COMP_DIODE)
       => (pc' = "cleanup" /\ Found' = Found)]_vars

C11_Witness ==
  /\ pc = "cleanup"
  /\ h.plausFound >= COMP_DIODE
  /\ Found = h.plausFound
  /\ (h.retLarge = 3 \/ h.retSmall = 3)
  /\ (Cap.Scale > -12 \/ Cap.Value >= 5)

\* a registered resistor below 10 Ohm between the probes of the call, in
\* either orientation
LowResistorOnPair ==
  \E i \in 1 .. Len(reg.Resistors) :
    /\ \/ (reg.Resistors[i].A = mc.Probe1 /\ reg.Resistors[i].B = mc.Probe2)
       \/ (reg.Resistors[i].A = mc.Probe2 /\ reg.Resistors[i].B = mc.Probe1)
    /\ CmpValue(reg.Resistors[i].Value, reg.Resistors[i].Scale, 10, 0) < 0

\* a skipped call: returned without an estimator, record at its reset
\* defaults, Check.Found unchanged
SkippedCall ==
  /\ Returned
  /\ h.nLarge = 0 /\ h.nSmall = 0
  /\ Cap = h.resetCap
  /\ Cap.Scale = -12 /\ Cap.Raw = 0 /\ Cap.Value = 0
  /\ Found = h.entryFound

\* the call went on to the estimators
EstimatorsCalled == pc = "large_cap" \/ h.nLarge = 1

\* C12 as stated: with Check.Found = COMP_RESISTOR at entry the estimators
\* are called if and only if a registered resistor below 10 Ohm connects the
\* two probes; otherwise the call is skipped.
C12_LowResistorOnly ==
  (pc # "idle" /\ h.entryFound = COMP_RESISTOR)
    => IF LowResistorOnPair THEN EstimatorsCalled ELSE SkippedCall

\* C12 as amended: the estimators are called if and only if such a resistor
\* is registered and no diode with Vf below 1500mV is registered from
\* probe-1 to probe-2; otherwise the call is skipped.
C12_LowResistorNoDiode ==
  (pc # "idle" /\ h.entryFound = COMP_RESISTOR)
    => IF LowResistorOnPair /\ ~LowVfDiode
       THEN EstimatorsCalled /\ ~h.skipped
       ELSE SkippedCall /\ h.skipped

C12_Witness ==
  /\ Returned
  /\ h.entryFound = COMP_RESISTOR
  /\ LowResistorOnPair
  /\ ~LowVfDiode
  /\ h.nLarge = 1
  /\ Len(reg.Resistors) = 2

\* C13: with Check.Found below diode rank and not resistor, the plausibility
\* step sets Check.Found to capacitor if and only if the record has
\* Scale > -12 or Value >= 5; otherwise Check.Found is left as it is.
C13_GhostRule ==
  [][(pc = "plausibility" /\ Found < COMP_DIODE /\ Found # COMP_RESISTOR)
       => IF Cap.Scale > -12 \/ Cap.Value >= 5
          THEN Found' = COMP_CAPACITOR
          ELSE Found' = Found /\ Found' # COMP_CAPACITOR]_vars

C13_Witness ==
  /\ pc = "cleanup"
  /\ h.plausFound = COMP_NONE
  /\ h.retSmall = 3
  /\ Cap.Scale = -12 /\ Cap.Value = 5
  /\ Found = COMP_CAPACITOR

\* after a success of LargeCap: the capacitance in nF before scaling
LargeUnscaled ==
  h.factor * h.count * (IF "PULL_10MS" \in h.mode THEN 10 ELSE 1)

\* after a success of SmallCap: the timer ticks before scaling
SmallUnscaled == IF h.count > 2 THEN h.count - 2 ELSE h.count

\* C14: after a success of LargeCap the record has Scale -9 or -6, after a
\* success of SmallCap -12 or -9; Raw and Value are not negative; the value
\* is divided by 1000 exactly when Scale is 3 above the default of the
\* estimator, so that Raw x 10^Scale is the capacitance measured.
C14_ScaleAndValue ==
  /\ (h.retLarge = 3) =>
       /\ Cap.Scale \in {-9, -6}
       /\ Cap.Raw >= 0 /\ Cap.Value >= 0
       /\ (Cap.Scale = -6) <=> (LargeUnscaled > UINT32_MAX_1000)
       /\ Cap.Raw = LargeUnscaled \div (IF Cap.Scale = -6 THEN 1000 ELSE 1)
       /\ CmpValue(Cap.Raw, Cap.Scale, LargeUnscaled, -9) <= 0
       /\ CmpValue(Cap.Raw + 1, Cap.Scale, LargeUnscaled, -9) > 0
       /\ Cap.Value <= Cap.Raw
  /\ (h.retSmall = 3) =>
       /\ Cap.Scale \in {-12, -9}
       /\ Cap.Raw >= 0 /\ Cap.Value >= 0
       /\ (Cap.Scale = -9) <=> (SmallUnscaled > UINT32_MAX_1000)
       /\ Cap.Raw = MulDivU32(SmallUnscaled \div (IF Cap.Scale = -9 THEN 1000 ELSE 1),
                              h.factor, CPU_FREQ \div 10000)
       /\ Cap.Value <= Cap.Raw

C14_Witness ==
  /\ Returned
  /\ h.retLarge = 3
  /\ Cap.Scale = -6
  /\ LargeUnscaled > UINT32_MAX_1000
  /\ Cap.Value > 0

\* SmallCap has written the record
SmallCapWrote == h.nSmall = 1 /\ h.count > 0

\* C15: in the pF scale the Value SmallCap stores is Raw - CapZero, and 0
\* when the stored zero offset is above Raw; it is never negative.
C15_OffsetClamped ==
  (SmallCapWrote /\ Cap.Scale = -12)
    => /\ Cap.Value >= 0
       /\ Cap.Value = (IF Cap.Raw - NV.CapZero > 0 THEN Cap.Raw - NV.CapZero ELSE 0)
       /\ (NV.CapZero > Cap.Raw) => Cap.Value = 0

C15_Witness ==
  /\ Returned
  /\ SmallCapWrote
  /\ h.retSmall = 3
  /\ Cap.Scale = -12
  /\ Cap.Raw > 0
  /\ NV.CapZero > Cap.Raw
  /\ Cap.Value = 0

\* the loop of MeasureESR ran to its end and the call returned
EsrMeasured == pc = "esr_done" /\ h.pulses = EsrLoops

\* C16: SW_ESR with the loaded sum above the unloaded sum: a raw ESR above
\* the zero offset gives raw ESR - RZero; otherwise the result is 0 for a
\* capacitor above 1000uF and UINT16_MAX for any other.
C16_OffsetOrZero ==
  (EsrMeasured /\ ~build.SW_OLD_ESR /\ h.Sum_2 > h.Sum_1)
    => LET raw == RawESR(NV.RiL, h.Sum_2 - h.Sum_1, h.Sum_1)
       IN  esr.ESR = IF raw > RZeroOffset THEN raw - RZeroOffset
                     ELSE IF CmpValue(Cap.Value, Cap.Scale, 1000, -6) > 0 THEN 0
                     ELSE UINT16_MAX

C16_Witness ==
  /\ EsrMeasured
  /\ ~build.SW_OLD_ESR
  /\ h.Sum_2 > h.Sum_1
  /\ RawESR(NV.RiL, h.Sum_2 - h.Sum_1, h.Sum_1) <= RZeroOffset
  /\ RZeroOffset > 0
  /\ CmpValue(Cap.Value, Cap.Scale, 1000, -6) > 0
  /\ esr.ESR = 0

\* floor(a * b / c) in unbounded integers, for a < 2^17, b < 2^20, c < 2^20
ExactQuotient(a, b, c) ==
  LET q1 == (a * (b \div 1024)) \div c
      r1 == (a * (b \div 1024)) % c
  IN  q1 * 1024 + (r1 * 1024 + a * (b % 1024)) \div c

\* C17: a value returned by MeasureESR that is not the sentinel is
\* floor((RiL x 10) x (Sum_2 - Sum_1) / Sum_1) - RZero in unbounded integers
\* (0 where SW_ESR reports 0 for a large capacitor).
C17_ExactResult ==
  (EsrMeasured /\ esr.ESR # UINT16_MAX /\ h.Sum_2 > h.Sum_1)
    => LET exact == ExactQuotient(NV.RiL * 10, h.Sum_2 - h.Sum_1, h.Sum_1)
       IN  esr.ESR = IF exact > RZeroOffset THEN exact - RZeroOffset ELSE 0

\* C18: with a NULL pointer or a capacitor below the minimum of the variant
\* MeasureESR returns UINT16_MAX without touching anything; when the first
\* DischargeProbes() leaves COMP_ERROR it returns UINT16_MAX without a
\* pulse and without a conversion.
C18_EarlyReturn ==
  [][(pc = "esr_idle")
       => LET small == CmpValue(Cap.Value, Cap.Scale,
                                IF build.SW_OLD_ESR THEN 180 ELSE 10, -9) < 0
          IN  /\ (esr.Cap = 0 \/ small)
                   => /\ pc' = "esr_done"
                      /\ esr' = esr /\ esr'.ESR = UINT16_MAX
                      /\ Found' = Found /\ pins' = pins /\ Probes' = Probes
                      /\ h'.pulses = 0
              /\ (Found' = COMP_ERROR)
                   => /\ pc' = "esr_done"
                      /\ esr' = esr /\ esr'.ESR = UINT16_MAX
                      /\ pins' \in {pins, SafePins}
                      /\ h'.pulses = 0]_vars

C18_Witness ==
  /\ pc = "esr_done"
  /\ build.SW_OLD_ESR
  /\ esr.Cap = 1
  /\ CmpValue(Cap.Value, Cap.Scale, 10, -9) > 0
  /\ CmpValue(Cap.Value, Cap.Scale, 180, -9) < 0
  /\ h.pulses = 0
  /\ esr.ESR = UINT16_MAX
  /\ Found = COMP_CAPACITOR

\* a record with every field at its default
FreshCap ==
  [A |-> 0, B |-> 0, Scale |-> -12, Raw |-> 0, Value |-> 0,
   I_leak_Value |-> 0, I_leak_Scale |-> 0, U_loss |-> 0]

\* fields an estimator writes on success
LargeCapFields ==
  {"A", "B", "Scale", "Raw", "Value", "I_leak_Value", "I_leak_Scale", "U_loss"}
SmallCapFields == {"A", "B", "Scale", "Raw", "Value", "U_loss"}

\* C19: when MeasureCap returns, each field of the record is at its default
\* or was written by the estimator that succeeded in this call (U_loss is a
\* field with SW_C_VLOSS only).
C19_NothingStale ==
  Returned =>
    \A f \in DOMAIN Cap :
      \/ Cap[f] = FreshCap[f]
      \/ (h.retLarge = 3 /\ f \in LargeCapFields)
      \/ (h.retSmall = 3 /\ f \in SmallCapFields)
      \/ (f = "U_loss" /\ ~build.SW_C_VLOSS)

\* return points of LargeCap, SmallCap and MeasureCap
CapReturn == pc \in {"after_large", "plausibility", "cleanup", "done"}

\* C20 as stated: when LargeCap, SmallCap, MeasureCap or MeasureESR returns,
\* Cfg.AutoScale, Cfg.Samples and Cfg.Ref are as they were at the call.
C20_ConfigRestored ==
  (CapReturn \/ pc = "esr_done")
    => /\ Cfg.AutoScale = InitCfg.AutoScale
       /\ Cfg.Samples = InitCfg.Samples
       /\ Cfg.Ref = InitCfg.Ref

\* C20 as amended: Cfg.AutoScale and Cfg.Samples are as they were at the
\* call; Cfg.Ref is as it was at the call when LargeCap, SmallCap or
\* MeasureCap returns and when MeasureESR returns early, and it is the
\* bandgap reference after MeasureESR ran its measurement loop.
C20_ConfigButRef ==
  /\ (CapReturn \/ pc = "esr_done")
       => /\ Cfg.AutoScale = InitCfg.AutoScale
          /\ Cfg.Samples = InitCfg.Samples
  /\ CapReturn => Cfg.Ref = InitCfg.Ref
  /\ (pc = "esr_done")
       => Cfg.Ref = IF h.pulses = EsrLoops THEN "BANDGAP" ELSE InitCfg.Ref

C20_Witness ==
  /\ EsrMeasured
  /\ InitCfg.Ref = "VCC"
  /\ Cfg.Ref = "BANDGAP"
  /\ Cfg.AutoScale = 1
  /\ Cfg.Samples = ADC_SAMPLES

\* probe-2 driven low by the ADC port, nothing else driven or pulled
Probe2Grounded ==
  [ADC_PORT |-> NoPins, ADC_DDR |-> Pin(Probes.ID_2),
   R_PORT |-> NoPins, R_DDR |-> NoPins]

LargeCapReturned == pc = "after_large"
SmallCapReturned == pc = "plausibility" /\ h.nSmall = 1
EsrReturned == pc = "esr_done"

\* C21 as stated: on every return of LargeCap, SmallCap and MeasureESR the
\* port registers are neutral: ADC_DDR = 0, R_DDR = 0 and R_PORT = 0.
C21_NeutralOnReturn ==
  (LargeCapReturned \/ SmallCapReturned \/ EsrReturned)
    => /\ pins.ADC_DDR = NoPins
       /\ pins.R_DDR = NoPins
       /\ pins.R_PORT = NoPins

\* C21 as amended: no estimator returns with a pin driven or pulled high,
\* but only the SW_ESR variant of MeasureESR releases the pins by itself.
\* After a discharge that worked LargeCap returns with probe-2 still driven
\* low; SmallCap returns with its pull-down pins driven low and Rh of
\* probe-1 as a pull-down, or, after it measured the voltage loss, with
\* probe-2 driven low; the SW_OLD_ESR variant ends its measurement loop
\* with probe-2 driven low and leaves the rest to DischargeProbes().
C21_NothingHigh ==
  /\ (LargeCapReturned /\ Found # COMP_ERROR) => pins = Probe2Grounded
  /\ (SmallCapReturned /\ Found # COMP_ERROR)
       => pins \in {Probe2Grounded,
                    [ADC_PORT |-> NoPins, ADC_DDR |-> SmallCapPullDown,
                     R_PORT |-> NoPins, R_DDR |-> Rh(Probes.ID_1)]}
  /\ (pc = "esr_cleanup")
       => pins = IF build.SW_OLD_ESR THEN Probe2Grounded ELSE SafePins
  /\ (EsrReturned /\ h.pulses = EsrLoops)
       => pins \in {SafePins} \cup (IF build.SW_OLD_ESR THEN {Probe2Grounded} ELSE {})

C21_Witness ==
  /\ LargeCapReturned
  /\ Found # COMP_ERROR
  /\ pins.ADC_DDR = Pin(Probes.ID_2)
  /\ pins.ADC_DDR # NoPins

\* C22: each run of LargeCap's charge loop adds one pulse, and the loop ends
\* with the first pulse after which the compensated voltage is at least
\* 300mV, with pulse 500, or with pulse 126 when the voltage is below 75mV
\* by then; LargeCap returns 1 exactly when the loop ended below 300mV, which
\* is after 500 pulses or at pulse 126 below 75mV.
C22_ChargeLoop ==
  [][/\ (pc = "lc_charge")
          => /\ lc'.Pulses = lc.Pulses + 1
             /\ lc'.Pulses <= 500
             /\ (pc' = "lc_eval")
                  <=> \/ lc'.U_Cap >= 300
                      \/ lc'.Pulses = 500
                      \/ lc'.Pulses = 126 /\ lc'.U_Cap < 75
     /\ (pc = "lc_eval")
          => /\ (pc' = "after_large" /\ mc'.TempByte = 1) <=> lc.U_Cap < 300
             /\ (lc.U_Cap < 300)
                  => \/ lc.Pulses = 500
                     \/ lc.Pulses = 126 /\ lc.U_Cap < 75]_vars

C22_Witness ==
  /\ LargeCapReturned
  /\ mc.TempByte = 1
  /\ h.retLarge = 1
  /\ h.attempts = 1

\* C23 as stated: LargeCap returns 0 whenever the voltage drop during the
\* measuring period (U_Drop) is above 100mV, and a call that returns 0 has written no field of
\* the capacitor record (capacitance, leakage, voltage loss) in any build.
C23_RejectedUntouched ==
  /\ (pc \in {"lc_leak", "lc_calc"} /\ lc.U_Drop > 100) => lc.Flag = 0
  /\ (LargeCapReturned /\ h.retLarge = 0) => Cap = h.resetCap

\* the value of the record is within 100nF - 20uF
InWindow ==
  /\ CmpValue(Cap.Value, Cap.Scale, 100, -9) >= 0
  /\ CmpValue(Cap.Value, Cap.Scale, 20, -6) <= 0

OffsetsWritten ==
  NV.RefOffset # InitNV.RefOffset \/ NV.CompOffset # InitNV.CompOffset

DerivesOffset == pc \in {"sc_adjust", "rc_adjust"}
DerivedOffset ==
  IF pc = "sc_adjust" THEN I16(sc.U_c - sc'.Ticks) ELSE I16(rc.U_c - rc'.Ticks)

\* C25 as stated: a step of SmallCap or RefCap leaves NV.CompOffset within
\* -50..+50 mV, and a derived offset outside that range is stored as the
\* nearest limit.
C25_StoredAsLimit ==
  [][/\ NV'.CompOffset \in -50..50
     /\ DerivesOffset
          => NV'.CompOffset = IF DerivedOffset < -50 THEN -50
                              ELSE IF DerivedOffset > 50 THEN 50
                              ELSE DerivedOffset]_vars

\* C25 as amended: a step of SmallCap or RefCap leaves NV.CompOffset within
\* -50..+50 mV if it was; a derived offset within -49..+49 mV is stored, any
\* other derived offset is dropped and NV.CompOffset keeps its value.
C25_StoredOrKept ==
  [][/\ (NV.CompOffset \in -50..50) => (NV'.CompOffset \in -50..50)
     /\ NV'.CompOffset =
          IF DerivesOffset /\ DerivedOffset > -50 /\ DerivedOffset < 50
          THEN DerivedOffset ELSE NV.CompOffset]_vars

C25_Witness ==
  /\ pc = "rc_done"
  /\ rc.Flag = 1
  /\ I16(rc.U_c - rc.Ticks) > 50
  /\ NV.CompOffset = -50

\* a call on an open probe pair: nothing found before, LargeCap sees more
\* than 1300mV after one pulse in both modes, SmallCap measures less than
\* 5pF, every DischargeProbes() works
OpenProbeCall ==
  /\ Returned
  /\ h.entryFound = COMP_NONE
  /\ h.retLarge = 2
  /\ h.retSmall = 3
  /\ Cap.Scale = -12
  /\ Cap.Value < 5
  /\ Found # COMP_ERROR

\* C26: a call of MeasureCap on an open probe pair reports no capacitor and
\* returns with everything a second call reads as it was at the first call:
\* Check.Found, the calibration store, the runtime configuration, and a
\* record which the reset at entry turns into the same record again.  With
\* the same readings the second call therefore takes the same steps to the
\* same return codes, record and classification.
C26_OpenProbeIdempotent ==
  OpenProbeCall
    => /\ Found = h.entryFound
       /\ Found = COMP_NONE
       /\ NV = InitNV
       /\ Cfg = InitCfg
       /\ ResetCap(Cap) = h.resetCap
       /\ pins = SafePins

C26_Witness ==
  /\ OpenProbeCall
  /\ h.written
  /\ h.attempts = 2
  /\ Cap.Raw > 0

\* a small cap of about 100nF: LargeCap saw more than 1300mV after one pulse
\* in both modes, SmallCap returned success with 100nF +/- 5%
HundredNano ==
  /\ SmallCapReturned
  /\ h.retLarge = 2
  /\ h.attempts = 2
  /\ h.retSmall = 3
  /\ CmpValue(Cap.Value, Cap.Scale, 95, -9) >= 0
  /\ CmpValue(Cap.Value, Cap.Scale, 105, -9) <= 0

\* C27 as stated: a capacitor of 100nF is measured by SmallCap with a record
\* whose Scale is -9.
C27_HundredNanoScale == HundredNano => Cap.Scale = -9

\* the timer loop ended with the input capture seen
CaptureSeen == pc = "t_done" /\ "ICF1" \in sc.TempByte

C29_SameUpdates ==
  [][(pc = "sc_adjust")
       => \E U_vcc \in VccReads :
            LET r == RefCapRef(U_vcc, sc'.Ticks2, Cfg.Bandgap)
            IN  /\ NV'.RefOffset = I8(NV.RefOffset + r.RefDelta)
                /\ sc'.Ticks = r.Ticks
                /\ NV'.CompOffset = RefCapComp(sc.U_c, r.Ticks, NV.CompOffset)]_vars

\* C30 as stated: after each pulse of LargeCap's charge loop the compensated
\* voltage is max(U_read - U_Zero, 0) for the reading U_read of that pulse
\* and the signed zero offset U_Zero, negative offsets included.
C30_SignedCompensation ==
  [][(pc = "lc_charge")
       => \E U_read \in ChargeReads(lc'.Pulses) :
            lc'.U_Cap = IF U_read - lc.U_Zero > 0
                        THEN U_read - lc.U_Zero ELSE 0]_vars


(***************************************************************************)
(* The conversions by themselves: operands drawn from bounded sets         *)
(***************************************************************************)

\* a * b is at most UINT32_MAX, for 0 <= a < 2^31 and 0 <= b < 2^23
FitsU32(a, b) == b < 2 \/ a <= DivU32(<<255, 255, 255, 255>>, b)

\* every product of a sequence of <<a, b>> pairs fits into a uint32_t
AllFit(products) == \A i \in DOMAIN products : FitsU32(products[i][1], products[i][2])

\* CAP_FACTOR_SMALL of the build: the compensation is compiled when not 0
SmallCapCompensations == {0, -40}

\* SmallCap's timer ticks: around the scaling limit and up to the timeout
ConvTicks == {0, 3, 35128, 35129, 35130, 65535}
ConvTicks2 == {0, 1, 55, 65, 1599}
ConvSmallFactors == {648, 856, 954}

\* SmallCap's conversion for a build with the compensation capFactor: the
\* record fields and the operands of each multiplication done on the way
SmallCapConvert(Ticks, Ticks2, factor, CapZero, capFactor) ==
  LET Raw0 == Ticks + Ticks2 * 65536
      Raw1 == IF Raw0 > 2 THEN Raw0 - 2 ELSE Raw0
      big == Raw1 > UINT32_MAX_1000
      Raw2 == IF big THEN Raw1 \div 1000 ELSE Raw1
      Scale == IF big THEN -12 + 3 ELSE -12
      Raw3 == MulDivU32(Raw2, factor, CPU_FREQ \div 10000)
      Raw == IF capFactor # 0
             THEN MulDivU32(Raw3, 1000, 1000 - capFactor) ELSE Raw3
      Value == IF Scale = -12
               THEN (IF Raw >= CapZero THEN Raw - CapZero ELSE 0)
               ELSE Raw
  IN  [Scale |-> Scale, Raw |-> Raw, Value |-> Value,
       products |-> IF capFactor # 0
                    THEN <<<<Raw2, factor>>, <<Raw3, 1000>>>>
                    ELSE <<<<Raw2, factor>>>>]

\* operands of the conversions
SmallCapOperands ==
  {[op |-> "SmallCap", in |-> [Ticks |-> t, Ticks2 |-> t2, factor |-> f,
                               CapZero |-> z, capFactor |-> k],
    out |-> NoFrame] :
     t \in ConvTicks, t2 \in ConvTicks2, f \in ConvSmallFactors,
     z \in {43}, k \in SmallCapCompensations}

\* SmallCap: calculate capacitance from the ticks
Calc_SmallCap ==
  /\ pc = "calc"
  /\ calc.op = "SmallCap"
  /\ calc' = [calc EXCEPT !.out =
                SmallCapConvert(calc.in.Ticks, calc.in.Ticks2, calc.in.factor,
                                calc.in.CapZero, calc.in.capFactor)]
  /\ pc' = "calc_done"
  /\ UNCHANGED <<rc, tmr, esr, dut, build, Found, reg, Cap, pins, Probes, NV,
                 Cfg, mc, lc, sc, h>>

\* C31: no step of SmallCap's conversion exceeds 32 bits: for every tick
\* count below the overflow budget and every factor of the small-cap table
\* the multiplication by the factor and the optional multiplication by 1000
\* have a product of at most 2^32 - 1.
C31_NoOverflow ==
  (pc = "calc_done" /\ calc.op = "SmallCap")
    => /\ calc.in.Ticks2 < OverflowBudget
       /\ AllFit(calc.out.products)

\* C31, the build without compensation: the only product fits
C31_UncompensatedFits ==
  (pc = "calc_done" /\ calc.op = "SmallCap" /\ calc.in.capFactor = 0)
    => AllFit(calc.out.products)

C31_Witness ==
  /\ pc = "calc_done" /\ calc.op = "SmallCap"
  /\ calc.in.capFactor = 0
  /\ calc.out.products[1][1] = UINT32_MAX_1000


\* LargeCap's factor (any 16-bit value), pulses and leakage voltage drop
ConvLargeFactors == {1, 4336, 23022, 65535}
ConvPulses == {1, 2, 99, 100, 186, 187, 500}
ConvLeaks == {0, 1, 20, 1300, 5000}
ConvModes == {{"PULL_10MS", "PULL_UP"}, {"PULL_1MS", "PULL_UP"}}

\* operands of the multiplications of LargeCap's conversion
LargeCapProducts(factor, Pulses, Mode) ==
  LET Raw1 == factor * Pulses
      Raw2 == IF "PULL_10MS" \in Mode THEN Raw1 * 10 ELSE Raw1
      Raw == IF Raw2 > UINT32_MAX_1000 THEN Raw2 \div 1000 ELSE Raw2
  IN  <<<<factor, Pulses>>>>
      \o (IF "PULL_10MS" \in Mode THEN <<<<Raw1, 10>>>> ELSE <<>>)
      \o <<<<Raw, 1000>>>>

\* operands of the multiplication of the leakage current
LeakProducts(Value, Scale, U_leak) ==
  <<<<ScaleDown(Value, Scale, 800000).Value, U_leak>>>>

LargeCapOperands ==
  {[op |-> "LargeCap", in |-> [factor |-> f, Pulses |-> p, Mode |-> m,
                               U_leak |-> u],
    out |-> NoFrame] :
     f \in ConvLargeFactors, p \in ConvPulses, m \in ConvModes,
     u \in ConvLeaks}

\* LargeCap: calculate capacitance and leakage current
Calc_LargeCap ==
  /\ pc = "calc"
  /\ calc.op = "LargeCap"
  /\ \E c \in {LargeCapValue(calc.in.factor, calc.in.Pulses, calc.in.Mode)} :
       \E l \in {LargeCapLeak(c.Value, c.Scale, calc.in.U_leak, calc.in.Mode)} :
         calc' = [calc EXCEPT !.out =
                    [Scale |-> c.Scale, Raw |-> c.Raw, Value |-> c.Value,
                     I_leak_Value |-> l.I_leak_Value,
                     I_leak_Scale |-> l.I_leak_Scale,
                     products |-> LargeCapProducts(calc.in.factor,
                                    calc.in.Pulses, calc.in.Mode),
                     leakProducts |-> LeakProducts(c.Value, c.Scale,
                                                   calc.in.U_leak)]]
  /\ pc' = "calc_done"
  /\ UNCHANGED <<rc, tmr, esr, dut, build, Found, reg, Cap, pins, Probes, NV,
                 Cfg, mc, lc, sc, h>>

LargeCapDone == pc = "calc_done" /\ calc.op = "LargeCap"

\* C32: LargeCap's conversion does not overflow: for every 16-bit factor,
\* every pulse count in 1..500 and both modes every product fits into 32
\* bits, Raw is factor x pulses (x 10 for 10ms pulses), divided by 1000 with
\* Scale -6 instead of -9 exactly when above UINT32_MAX / 1000, and Value is
\* floor(Raw x 1000 / (1000 - CAP_FACTOR)), CAP_FACTOR_LARGE for 10ms
\* pulses and CAP_FACTOR_MID for 1ms pulses.
C32_ExactConversion ==
  LargeCapDone
    => LET long == "PULL_10MS" \in calc.in.Mode
           product == calc.in.factor * calc.in.Pulses * (IF long THEN 10 ELSE 1)
           big == product > UINT32_MAX_1000
           comp == 1000 - (IF long THEN CAP_FACTOR_LARGE ELSE CAP_FACTOR_MID)
       IN  /\ AllFit(calc.out.products)
           /\ calc.out.Raw = IF big THEN product \div 1000 ELSE product
           /\ calc.out.Scale = IF big THEN -6 ELSE -9
           /\ calc.out.Value = ExactQuotient(1000, calc.out.Raw, comp)

C32_Witness ==
  /\ LargeCapDone
  /\ calc.in.factor = 65535 /\ calc.in.Pulses = 500
  /\ "PULL_10MS" \in calc.in.Mode
  /\ calc.out.Scale = -6

\* C33: the leakage current of LargeCap: Value is first brought to at most
\* 800000, each division by ten paired with an increment of Scale, the
\* product with U_leak (0..5000 mV) fits into 32 bits, I_leak_Value fits
\* into 16 bits, and I_leak_Value x 10^I_leak_Scale is C x U_leak / t up to
\* the truncations (t = 1s for 10ms pulses, 0.1s for 1ms pulses).
C33_LeakCurrent ==
  LargeCapDone
    => LET tenth == IF "PULL_1MS" \in calc.in.Mode THEN 1 ELSE 0
           e == calc.out.I_leak_Scale - calc.out.Scale - tenth
           exact == ExactQuotient(calc.in.U_leak, calc.out.Value,
                                  1000 * Pow10(e))
       IN  /\ calc.out.leakProducts[1][1] <= 800000
           /\ AllFit(calc.out.leakProducts)
           /\ calc.out.I_leak_Value <= UINT16_MAX
           /\ e \in 0 .. 3
           /\ calc.out.I_leak_Value <= exact
           /\ exact - calc.out.I_leak_Value <= 5

C33_Witness ==
  /\ LargeCapDone
  /\ calc.out.Value > 800000
  /\ calc.in.U_leak = 5000
  /\ "PULL_1MS" \in calc.in.Mode
  /\ calc.out.I_leak_Scale - calc.out.Scale = 4

\* ReadU() of the discharged cap with Vcc and with bandgap reference
ConvVccReads == {0, 5, 500, 800, 904, 980}
ConvBandgapReads == {0, 500, 680, 900, 980}

\* NV.RefOffset left by earlier adjustments
ConvRefOffsets == {0, 100}

\* a division by zero is undefined: any quotient, these as (int8_t)
UndefinedQuotients == {-128, -1, 0, 127}

\* the correction is computed with the divisor 0
DividesByZero(U_vcc, U_bg) ==
  /\ U_bg = 0
  /\ I16(U_vcc - U_bg) < -4 \/ I16(U_vcc - U_bg) > 4

RefOperands ==
  {[op |-> o, in |-> [U_vcc |-> v, U_bg |-> b, Bandgap |-> InitCfg.Bandgap,
                      RefOffset |-> r, Value |-> 102221],
    out |-> NoFrame] :
     o \in {"SmallCapRef", "RefCapRef"}, v \in ConvVccReads,
     b \in ConvBandgapReads, r \in ConvRefOffsets}

\* SmallCap: self-adjust the offset of the bandgap reference
Calc_SmallCapRef ==
  /\ pc = "calc"
  /\ calc.op = "SmallCapRef"
  /\ IF DividesByZero(calc.in.U_vcc, calc.in.U_bg)
     THEN \E q \in UndefinedQuotients :
            calc' = [calc EXCEPT !.out =
                       [RefOffset |-> I8(calc.in.RefOffset + q),
                        Ticks |-> U16(calc.in.Bandgap + I8(calc.in.Value)),
                        undefined |-> TRUE]]
     ELSE \E r \in {AdjustRef(calc.in.U_vcc, calc.in.U_bg, calc.in.Bandgap,
                              calc.in.Value)} :
            calc' = [calc EXCEPT !.out =
                       [RefOffset |-> I8(calc.in.RefOffset + r.RefDelta),
                        Ticks |-> r.Ticks, undefined |-> FALSE]]
  /\ pc' = "calc_done"
  /\ UNCHANGED <<rc, tmr, esr, dut, build, Found, reg, Cap, pins, Probes, NV,
                 Cfg, mc, lc, sc, h>>

\* RefCap: self-adjust the offset of the bandgap reference
Calc_RefCapRef ==
  /\ pc = "calc"
  /\ calc.op = "RefCapRef"
  /\ IF DividesByZero(calc.in.U_vcc, calc.in.U_bg)
     THEN \E q \in UndefinedQuotients :
            calc' = [calc EXCEPT !.out =
                       [RefOffset |-> I8(calc.in.RefOffset + q),
                        Ticks |-> U16(calc.in.Bandgap + q),
                        undefined |-> TRUE]]
     ELSE \E r \in {RefCapRef(calc.in.U_vcc, calc.in.U_bg, calc.in.Bandgap)} :
            calc' = [calc EXCEPT !.out =
                       [RefOffset |-> I8(calc.in.RefOffset + r.RefDelta),
                        Ticks |-> r.Ticks, undefined |-> FALSE]]
  /\ pc' = "calc_done"
  /\ UNCHANGED <<rc, tmr, esr, dut, build, Found, reg, Cap, pins, Probes, NV,
                 Cfg, mc, lc, sc, h>>

RefDone == pc = "calc_done" /\ calc.op \in {"SmallCapRef", "RefCapRef"}

\* C34: the self-adjustment of SmallCap and RefCap leaves NV.RefOffset
\* unchanged when the readings with Vcc and with bandgap reference differ
\* by at most 4 mV and adds exactly delta x Cfg.Bandgap / (reading with
\* bandgap reference) otherwise, for all readings in 0..980 mV: narrowing
\* to 8 bits and adding in 8 bits change neither value nor sign.
C34_ExactCorrection ==
  (RefDone /\ calc.in.U_bg # 0)
    => LET delta == calc.in.U_vcc - calc.in.U_bg
           correction == CDiv(delta * calc.in.Bandgap, calc.in.U_bg)
       IN  calc.out.RefOffset =
             IF delta >= -4 /\ delta <= 4 THEN calc.in.RefOffset
             ELSE calc.in.RefOffset + correction

\* C34, the part that holds: no change within 4 mV, and the exact
\* correction when it and the sum are within -128..127
C34_ExactInRange ==
  (RefDone /\ calc.in.U_bg # 0)
    => LET delta == calc.in.U_vcc - calc.in.U_bg
           correction == CDiv(delta * calc.in.Bandgap, calc.in.U_bg)
           sum == calc.in.RefOffset + correction
       IN  /\ (delta >= -4 /\ delta <= 4)
             => calc.out.RefOffset = calc.in.RefOffset
           /\ (~(delta >= -4 /\ delta <= 4) /\ correction \in -128 .. 127
               /\ sum \in -128 .. 127)
             => calc.out.RefOffset = sum

\* the operands of every conversion
CalcOperands == SmallCapOperands \cup LargeCapOperands \cup RefOperands

\* one conversion, its operands chosen, nothing else running
InitCalc ==
  /\ pc = "calc"
  /\ calc \in CalcOperands
  /\ build = [SW_C_VLOSS |-> TRUE, HW_ADJUST_CAP |-> TRUE]
  /\ Found = COMP_NONE
  /\ reg = [Resistors |-> NoResistors, Diodes |-> NoDiodes]
  /\ Cap = ResetCap(BootCap)
  /\ Probes = UpdateProbes2(0, 1)
  /\ pins = SafePins
  /\ NV = InitNV
  /\ Cfg = InitCfg
  /\ mc = NoFrame
  /\ lc = NoFrame
  /\ sc = NoFrame
  /\ rc = NoFrame
  /\ tmr = NoFrame
  /\ esr = NoFrame
  /\ dut = FlatReads
  /\ h = InitHistory

NextCalc ==
  \/ Calc_SmallCap
  \/ Calc_LargeCap
  \/ Calc_SmallCapRef
  \/ Calc_RefCapRef

SpecCalc == InitCalc /\ [][NextCalc]_vars


\* largest sum of the loop: 1 + 255 runs x 2 readings x 1023
EsrSumLimit == 1 + EsrLoops * 2 * 1023

\* C35: the measurement loop of MeasureESR starts with the counter at 255
\* and both sums at 1 and takes exactly 255 runs whatever is read; each run
\* resets the watchdog at least once and adds two readings without load to
\* Sum_1 and two with load to Sum_2, so both sums are within
\* 1 .. 1 + 255 x 2 x 1023 when the loop is left.
C35_LoopRuns ==
  [][/\ (pc = "esr_idle" /\ pc' = "esr_loop")
          => esr'.n = EsrLoops /\ esr'.Sum_1 = 1 /\ esr'.Sum_2 = 1
                               /\ h'.pulses = 0
     /\ pc = "esr_loop"
          => /\ esr.n = EsrLoops - h.pulses
             /\ h'.pulses = h.pulses + 1
             /\ h'.wdt >= h.wdt + 1
             /\ \A i \in 1 .. 4 : h'.reads[i] \in 0 .. 1023
             /\ esr'.Sum_1 = esr.Sum_1 + h'.reads[1] + h'.reads[3]
             /\ esr'.Sum_2 = esr.Sum_2 + h'.reads[2] + h'.reads[4]
             /\ pc' = IF h'.pulses = EsrLoops THEN "esr_result" ELSE "esr_loop"
             /\ pc' = "esr_result"
                  => /\ esr'.Sum_1 \in 1 .. EsrSumLimit
                     /\ esr'.Sum_2 \in 1 .. EsrSumLimit
     /\ pc' = "esr_result" => pc = "esr_loop"]_vars

C35_Witness ==
  /\ pc = "esr_result"
  /\ h.pulses = EsrLoops
  /\ h.wdt >= EsrLoops
  /\ esr.Sum_2 = EsrSumLimit
  /\ esr.Sum_1 = 1 + EsrLoops * 2 * 10


\* C36: the top-up half-pulses of SW_ESR: the first run of the loop gives
\* the negative one and not the positive one; every later run gives the
\* negative one exactly when U_4 of the run before was below 50 and the
\* positive one exactly when U_2 of the run before was below 50; a top-up
\* ends with the pull-up resistor disabled (R_DDR = 0, R_PORT = 0).
C36_TopUp ==
  [][(pc = "esr_loop" /\ ~build.SW_OLD_ESR)
       => /\ h.pulses = 0 => h'.negTopUp /\ ~h'.posTopUp
          /\ h.pulses >= 1 => /\ h'.negTopUp <=> h.reads[4] < 50
                              /\ h'.posTopUp <=> h.reads[2] < 50
          /\ (h'.negTopUp \/ h'.posTopUp)
               => /\ h'.topUp.R_DDR = NoPins
                  /\ h'.topUp.R_PORT = NoPins]_vars

C36_Witness ==
  /\ pc = "esr_loop"
  /\ ~build.SW_OLD_ESR
  /\ h.pulses = 2
  /\ h.negTopUp /\ h.posTopUp
  /\ h.reads[2] >= 50 /\ h.reads[4] >= 50
  /\ h.topUp.R_DDR = NoPins /\ h.topUp.R_PORT = NoPins


\* the result each variant of MeasureESR calculates from the sums of the
\* loop (old: SW_OLD_ESR), UINT16_MAX being the value for 'no result'
EsrVariant(old, Sum_1, Sum_2, RiL, RZero, c) ==
  IF old
  THEN LET U_1 == RawESR(RiL, IF Sum_2 > Sum_1 THEN Sum_2 - Sum_1 ELSE 0,
                         Sum_1)
       IN  IF U_1 > RZero THEN U16(U_1 - RZero) ELSE UINT16_MAX
  ELSE IF Sum_2 > Sum_1
       THEN LET U_1 == RawESR(RiL, Sum_2 - Sum_1, Sum_1)
            IN  IF U_1 > RZero THEN U16(U_1 - RZero)
                ELSE IF CmpValue(c.Value, c.Scale, 1000, -6) > 0 THEN 0
                ELSE UINT16_MAX
       ELSE UINT16_MAX

\* C37: from the same Sum_1, Sum_2, RiL, RZero and capacitor SW_ESR and
\* SW_OLD_ESR calculate the same result, except for a capacitor above
\* 1000uF with Sum_2 > Sum_1 and a raw ESR not above RZero, where SW_ESR
\* returns 0 and SW_OLD_ESR the value for 'no result'; what a measurement
\* of either build returns is the result of its variant.
C37_SameResult ==
  EsrMeasured
    => LET new == EsrVariant(FALSE, h.Sum_1, h.Sum_2, NV.RiL, RZeroOffset, Cap)
           old == EsrVariant(TRUE, h.Sum_1, h.Sum_2, NV.RiL, RZeroOffset, Cap)
           differ == /\ CmpValue(Cap.Value, Cap.Scale, 1000, -6) > 0
                     /\ h.Sum_2 > h.Sum_1
                     /\ RawESR(NV.RiL, h.Sum_2 - h.Sum_1, h.Sum_1) <= RZeroOffset
       IN  /\ esr.ESR = IF build.SW_OLD_ESR THEN old ELSE new
           /\ differ => new = 0 /\ old = UINT16_MAX
           /\ ~differ => new = old

C37_Witness ==
  /\ EsrMeasured
  /\ build.SW_OLD_ESR
  /\ CmpValue(Cap.Value, Cap.Scale, 1000, -6) > 0
  /\ h.Sum_2 > h.Sum_1
  /\ RawESR(NV.RiL, h.Sum_2 - h.Sum_1, h.Sum_1) <= RZeroOffset
  /\ esr.ESR = UINT16_MAX
  /\ EsrVariant(FALSE, h.Sum_1, h.Sum_2, NV.RiL, RZeroOffset, Cap) = 0


\* C38: MeasureESR, LargeCap, SmallCap and RefCap never divide by zero,
\* whatever the ADC reads; in particular the reading with bandgap reference
\* is not zero whenever the self-adjustment divides by it.
C38_NoDivisionByZero ==
  RefDone => ~calc.out.undefined

\* C38, the other divisors: Sum_1 of MeasureESR is at least 1 and U_Cap of
\* LargeCap at least 300 when they divide
C38_OtherDivisors ==
  /\ pc = "esr_result" => esr.Sum_1 >= 1
  /\ pc = "lc_drop" => lc.U_Cap >= ChargeLimit


\* return value of the estimator that ran last in this call
LastReturn == IF h.nSmall = 1 THEN h.retSmall ELSE h.retLarge

\* C39: MeasureCap reports a capacitor only in a call in which LargeCap or
\* SmallCap returned 3: when the estimator that ran last returned 0 or 1,
\* the record is at its reset defaults (Scale = -12, Value = 0) in the
\* plausibility check, which therefore does not change Check.Found to
\* COMP_CAPACITOR.
C39_OnlyAfterSuccess ==
  (pc \in {"plausibility", "cleanup"} /\ LastReturn \in {0, 1})
    => /\ Cap.Scale = -12 /\ Cap.Value = 0
       /\ pc = "cleanup"
            => ~(Found = COMP_CAPACITOR /\ h.plausFound # COMP_CAPACITOR)

\* C39, LargeCap alone: after a return of 0 or 1 from LargeCap the record
\* has Scale = -12 and Value = 0 and no capacitor is reported
C39_AfterLargeCap ==
  (pc \in {"plausibility", "cleanup"} /\ h.nSmall = 0 /\ h.retLarge \in {0, 1})
    => /\ Cap.Scale = -12 /\ Cap.Value = 0
       /\ pc = "cleanup"
            => ~(Found = COMP_CAPACITOR /\ h.plausFound # COMP_CAPACITOR)

=============================================================================
